---- MODULE Spec2Model ----
(***************************************************************************)
(* Verification model of the compas_future curve kernel                    *)
(* (src/src/compas_future/geometry): Line, Circle, Ellipse, Hyperbola and  *)
(* Parabola, their frame / cached-transformation state, and the Geometry  *)
(* copy-and-transform helpers.                                             *)
(* The last part models mesh_split_edge                                    *)
(* (src/src/compas_future/datastructures/mesh/operations/split.py) on a    *)
(* half-edge mesh.                                                         *)
(*                                                                         *)
(* Arithmetic is exact.  Points and vectors are integer triples; rigid     *)
(* transformations are integer matrices (quarter-turn rotations and unit   *)
(* translations); curve angles are multiples of pi/2, so that cos and sin  *)
(* are exact.  A unitized vector v/|v| is the record [v, n] denoting       *)
(* v / sqrt(n), kept in lowest terms.                                      *)
(*                                                                         *)
(* Python objects that can be aliased (Frame objects, the Point objects of *)
(* a Line) live in heaps indexed by object identity.                       *)
(***************************************************************************)
EXTENDS Integers, Sequences, FiniteSets, TLC

VARIABLES
    frames,     \* heap of Frame objects: identity -> [point, xaxis, yaxis]
    conics,     \* conic objects: identity -> [kind, frame, transformation, radius, major, minor, focal]
    nops,       \* number of operations performed so far
    last,       \* the last operation performed: [op, c, arg], with ret for a call that returns
    line,       \* a Line object: the values of its two Point objects [start, end]
    lcopy,      \* the Line object last returned by transformed()
    lret,       \* what the last Line evaluator returned: [alias, value]
    wr,         \* a thread inside the frame setter: [pc, f]
    rd,         \* a thread inside Circle.normal_at: [pc, t, T, F, a, b, overlap]
    mesh        \* a Mesh object: [vertex, halfedge, face, max_vertex]

vars == <<frames, conics, nops, last, line, lcopy, lret, wr, rd, mesh>>

conicVars == <<frames, conics>>

lineVars == <<line, lcopy, lret>>

raceVars == <<wr, rd>>

\* ---------------------------------------------------------------- bounds

\* Longest sequence of operations explored.
MaxOps == 2

\* Most conic objects alive at once.
MaxConics == 2

\* ------------------------------------------------- points and vectors

None == "None"

Zero == <<0, 0, 0>>

Add(a, b) == <<a[1] + b[1], a[2] + b[2], a[3] + b[3]>>

Sub(a, b) == <<a[1] - b[1], a[2] - b[2], a[3] - b[3]>>

Scale(a, s) == <<a[1] * s, a[2] * s, a[3] * s>>

Dot(a, b) == a[1] * b[1] + a[2] * b[2] + a[3] * b[3]

Cross(a, b) ==
    <<a[2] * b[3] - a[3] * b[2],
      a[3] * b[1] - a[1] * b[3],
      a[1] * b[2] - a[2] * b[1]>>

Abs(n) == IF n < 0 THEN -n ELSE n

RECURSIVE Gcd(_, _)
Gcd(a, b) == IF b = 0 THEN Abs(a) ELSE Gcd(b, a % Abs(b))

Gcd3(v) == Gcd(Gcd(v[1], v[2]), v[3])

\* A raised exception, as the value of the call that raised it.
Error(name) == [error |-> name]

\* Whether a vector or frame result (a record) is a raised exception.
IsError(x) == "error" \in DOMAIN x

\* Vector.unitize: v / |v|.  The length of the zero vector is 0 and the
\* division raises.
Unitize(v) ==
    IF v = Zero THEN Error("ZeroDivisionError")
    ELSE LET g == Gcd3(v)
             w == <<v[1] \div g, v[2] \div g, v[3] \div g>>
         IN  [v |-> w, n |-> Dot(w, w)]


\* ----------------------------------------------------- transformations

\* A transformation is [lin, tr]: lin holds the images of the three basis
\* vectors (the columns of the matrix), tr is the translation.
MatVec(M, v) == Add(Add(Scale(M[1], v[1]), Scale(M[2], v[2])), Scale(M[3], v[3]))

Identity == <<(<<1, 0, 0>>), (<<0, 1, 0>>), (<<0, 0, 1>>)>>

Translation(v) == [lin |-> Identity, tr |-> v]

\* Rotation by a quarter turn about the world z axis, through the origin.
RotZ == [lin |-> <<(<<0, 1, 0>>), (<<-1, 0, 0>>), (<<0, 0, 1>>)>>, tr |-> Zero]

\* Rotation by a quarter turn about the world x axis, through the origin.
RotX == [lin |-> <<(<<1, 0, 0>>), (<<0, 0, 1>>), (<<0, -1, 0>>)>>, tr |-> Zero]

Transpose(M) ==
    <<(<<M[1][1], M[2][1], M[3][1]>>),
      (<<M[1][2], M[2][2], M[3][2]>>),
      (<<M[1][3], M[2][3], M[3][3]>>)>>

\* Inverse of a rigid transformation.
Inverse(T) ==
    [lin |-> Transpose(T.lin), tr |-> Scale(MatVec(Transpose(T.lin), T.tr), -1)]

\* Point.transform(T)
ApplyPoint(T, p) == Add(MatVec(T.lin, p), T.tr)

\* Vector.transform(T): the translation does not act on a direction.
ApplyVector(T, v) == MatVec(T.lin, v)

\* Vector.transform(T) of a unitized vector.
ApplyUnit(T, u) ==
    IF IsError(u) THEN u ELSE [v |-> MatVec(T.lin, u.v), n |-> u.n]

\* --------------------------------------------------------------- frames

Frame(point, xaxis, yaxis) == [point |-> point, xaxis |-> xaxis, yaxis |-> yaxis]

WorldXY == Frame(Zero, <<1, 0, 0>>, <<0, 1, 0>>)

Zaxis(F) == Cross(F.xaxis, F.yaxis)

\* Frame.transform(T): origin and axes are mapped by T, in place.
FrameTransform(F, T) ==
    Frame(ApplyPoint(T, F.point), ApplyVector(T, F.xaxis), ApplyVector(T, F.yaxis))

\* Transformation.from_frame(frame): the map from the frame's local
\* coordinates to world coordinates, as a value.
FromFrame(F) == [lin |-> <<F.xaxis, F.yaxis, Zaxis(F)>>, tr |-> F.point]

\* --------------------------------------------------------------- conics

Kinds == {"Circle", "Ellipse", "Hyperbola", "Parabola"}

\* Values the callers pass for radius, major, minor and focal.
ShapeInputs == {1, 2}

\* Frames the callers build: orthonormal, not all at the world origin.
InputFrames == {WorldXY, Frame(<<1, 0, 0>>, <<0, 1, 0>>, <<-1, 0, 0>>)}

\* Points the callers pass to the point setters.
InputPoints == {Zero, <<1, 0, 0>>}

\* Transformations the callers pass to transform / transformed.
InputTransformations ==
    {Translation(<<1, 0, 0>>), RotZ, Inverse(Translation(<<1, 0, 0>>)), Inverse(RotZ)}

\* float(x) of a number is that number.
Float(x) == x

\* The frame setter shared by the four conics, in its two statements: the
\* frame OBJECT is stored (no copy) ...
FrameSetterAssign(c, f) == [c EXCEPT !.frame = f]

\* A frame setter whose second statement rebuilds the cache from the world
\* frame instead of the frame just stored.
FrameSetterRebuildFromWorld(c, fs) ==
    [c EXCEPT !.transformation = FromFrame(WorldXY)]

\* ... and the cached transformation is rebuilt from the stored frame.
FrameSetterRebuild(c, fs) == [c EXCEPT !.transformation = FromFrame(fs[c.frame])]

FrameSetter(c, f, fs) == FrameSetterRebuild(FrameSetterAssign(c, f), fs)

\* Circle.__init__(frame, radius) with a frame object f
CircleInit(f, fs, radius) ==
    [FrameSetter([kind |-> "Circle", frame |-> None, transformation |-> None,
                  radius |-> None], f, fs)
        EXCEPT !.radius = Float(radius)]

\* Ellipse.__init__(frame, major, minor)
EllipseInit(f, fs, major, minor) ==
    [FrameSetter([kind |-> "Ellipse", frame |-> None, transformation |-> None,
                  major |-> None, minor |-> None], f, fs)
        EXCEPT !.major = Float(major), !.minor = Float(minor)]

\* Hyperbola.__init__(frame, major, minor)
HyperbolaInit(f, fs, major, minor) ==
    [FrameSetter([kind |-> "Hyperbola", frame |-> None, transformation |-> None,
                  major |-> None, minor |-> None], f, fs)
        EXCEPT !.major = Float(major), !.minor = Float(minor)]

\* Parabola.__init__(frame, focal): the focal setter stores its argument as is.
ParabolaInit(f, fs, focal) ==
    [FrameSetter([kind |-> "Parabola", frame |-> None, transformation |-> None,
                  focal |-> None], f, fs)
        EXCEPT !.focal = focal]

\* cls(frame, p1, p2) for the class named kind (p2 is read by Ellipse and
\* Hyperbola only).
New(kind, f, fs, p1, p2) ==
    CASE kind = "Circle"    -> CircleInit(f, fs, p1)
      [] kind = "Ellipse"   -> EllipseInit(f, fs, p1, p2)
      [] kind = "Hyperbola" -> HyperbolaInit(f, fs, p1, p2)
      [] kind = "Parabola"  -> ParabolaInit(f, fs, p1)

\* The shape parameters of a conic, by name.
Shape(c) ==
    CASE c.kind = "Circle"    -> [radius |-> c.radius]
      [] c.kind = "Ellipse"   -> [major |-> c.major, minor |-> c.minor]
      [] c.kind = "Hyperbola" -> [major |-> c.major, minor |-> c.minor]
      [] c.kind = "Parabola"  -> [focal |-> c.focal]

\* The data property: the frame OBJECT and the shape parameters.
Data(c) ==
    CASE c.kind = "Circle"    -> [frame |-> c.frame, radius |-> c.radius]
      [] c.kind = "Ellipse"   -> [frame |-> c.frame, major |-> c.major, minor |-> c.minor]
      [] c.kind = "Hyperbola" -> [frame |-> c.frame, major |-> c.major, minor |-> c.minor]
      [] c.kind = "Parabola"  -> [frame |-> c.frame, focal |-> c.focal]

\* cls.from_data(data)
CircleFromData(data, fs) == CircleInit(data.frame, fs, data.radius)

EllipseFromData(data, fs) == EllipseInit(data.frame, fs, data.minor, data.minor)

HyperbolaFromData(data, fs) == HyperbolaInit(data.frame, fs, data.minor, data.minor)

ParabolaFromData(data, fs) == ParabolaInit(data.frame, fs, data.focal)

FromData(kind, data, fs) ==
    CASE kind = "Circle"    -> CircleFromData(data, fs)
      [] kind = "Ellipse"   -> EllipseFromData(data, fs)
      [] kind = "Hyperbola" -> HyperbolaFromData(data, fs)
      [] kind = "Parabola"  -> ParabolaFromData(data, fs)

\* ----------------------------------------------------------- evaluators

\* Curve angles are multiples of pi/2: the angle k stands for k * pi/2.
Cos(k) == CASE k % 4 = 0 -> 1 [] k % 4 = 1 -> 0 [] k % 4 = 2 -> -1 [] k % 4 = 3 -> 0

Sin(k) == CASE k % 4 = 0 -> 0 [] k % 4 = 1 -> 1 [] k % 4 = 2 -> 0 [] k % 4 = 3 -> -1

\* "t = t * 2 * pi": a normalized parameter is counted in eighths of the
\* unit interval, an angle in quarter turns, so that t / 8 of a turn is the
\* angle t / 2.
TwoPiTimes(t) == t \div 2

\* "if normalized: t = t * 2 * pi", the first statement of every evaluator
\* of Circle, Ellipse and Hyperbola.
Rescaled(t, normalized) == IF normalized THEN TwoPiTimes(t) ELSE t

\* The parameters at which each kind is evaluated: four angles around the
\* circle and the ellipse, the two angles of the hyperbola where the secant
\* is +1 and -1, and three abscissas of the parabola.
Params(kind) ==
    CASE kind = "Circle"    -> 0 .. 3
      [] kind = "Ellipse"   -> 0 .. 3
      [] kind = "Hyperbola" -> {0, 2}
      [] kind = "Parabola"  -> {-4, 0, 4}

\* The normalized parameters 0, 1/4, 1/2 and 3/4, in eighths.
NormalizedParams == {0, 2, 4, 6}

\* The angles pi/2 and 3 pi/2, where the cosine vanishes.
HyperbolaPoles == {1, 3}

\* Circle.point_at(t, normalized): the local point mapped through the
\* CACHED map.
CirclePointAt(c, fs, t, normalized) ==
    LET a == Rescaled(t, normalized)
    IN  ApplyPoint(c.transformation, <<c.radius * Cos(a), c.radius * Sin(a), 0>>)

\* A normal_at that points from the frame's origin to the evaluated point.
CircleNormalAtOutward(c, fs, t, normalized) ==
    LET t2 == Rescaled(t, normalized)
        a == CirclePointAt(c, fs, t2, FALSE)
        b == fs[c.frame].point
    IN  Unitize(Sub(a, b))

\* Circle.normal_at(t, normalized): from the evaluated point to the
\* frame's origin.
CircleNormalAt(c, fs, t, normalized) ==
    LET t2 == Rescaled(t, normalized)
        a == CirclePointAt(c, fs, t2, FALSE)
        b == fs[c.frame].point
    IN  Unitize(Sub(b, a))

\* A tangent_at that hands its own flag on to normal_at.
CircleTangentAtRescalingTwice(c, fs, t, normalized) ==
    LET t2 == Rescaled(t, normalized)
        normal == CircleNormalAt(c, fs, t2, normalized)
    IN  IF IsError(normal) THEN normal
        ELSE Unitize(Cross(normal.v, Zaxis(fs[c.frame])))

\* Circle.tangent_at(t, normalized): normal cross frame z axis, unitized.
CircleTangentAt(c, fs, t, normalized) ==
    LET t2 == Rescaled(t, normalized)
        normal == CircleNormalAt(c, fs, t2, FALSE)
    IN  IF IsError(normal) THEN normal
        ELSE Unitize(Cross(normal.v, Zaxis(fs[c.frame])))

\* Circle.frame_at(t, normalized): Frame(point, yaxis cross frame z axis,
\* yaxis).
CircleFrameAt(c, fs, t, normalized) ==
    LET t2 == Rescaled(t, normalized)
        point == CirclePointAt(c, fs, t2, FALSE)
        yaxis == CircleNormalAt(c, fs, t2, FALSE)
    IN  IF IsError(yaxis) THEN yaxis
        ELSE Frame(point,
                   [v |-> Cross(yaxis.v, Zaxis(fs[c.frame])), n |-> yaxis.n],
                   yaxis)

\* Ellipse.point_at(t, normalized)
EllipsePointAt(c, fs, t, normalized) ==
    LET a == Rescaled(t, normalized)
    IN  ApplyPoint(c.transformation, <<c.major * Cos(a), c.minor * Sin(a), 0>>)

\* Ellipse.tangent_at(t, normalized): the derivative, unitized, mapped as a
\* direction.
EllipseTangentAt(c, fs, t, normalized) ==
    LET a == Rescaled(t, normalized)
    IN  ApplyUnit(c.transformation,
                  Unitize(<<-c.major * Sin(a), c.minor * Cos(a), 0>>))

\* Ellipse.normal_at(t, normalized): frame z axis cross tangent, unitized.
EllipseNormalAt(c, fs, t, normalized) ==
    LET t2 == Rescaled(t, normalized)
        xaxis == EllipseTangentAt(c, fs, t2, FALSE)
    IN  IF IsError(xaxis) THEN xaxis
        ELSE Unitize(Cross(Zaxis(fs[c.frame]), xaxis.v))

\* Ellipse.frame_at(t, normalized): Frame(point, tangent, frame z axis
\* cross tangent).
EllipseFrameAt(c, fs, t, normalized) ==
    LET t2 == Rescaled(t, normalized)
        point == EllipsePointAt(c, fs, t2, FALSE)
        xaxis == EllipseTangentAt(c, fs, t2, FALSE)
    IN  IF IsError(xaxis) THEN xaxis
        ELSE Frame(point, xaxis,
                   [v |-> Cross(Zaxis(fs[c.frame]), xaxis.v), n |-> xaxis.n])

\* The double 1 / cos(t) at a pole.  The doubles nearest pi/2 and 3 pi/2 are
\* not the poles: their cosines are 6.1e-17 and -1.8e-16, and the reciprocal
\* is a finite double of the order of 1e16.  Huge stands for that order of
\* magnitude, above every coordinate a curve of the model has elsewhere.
Huge == 1000000

\* "secant = 1 / cos(t)": where the cosine is +1 or -1 the secant is the
\* cosine; at a pole the division goes through.
Secant(t) ==
    CASE t % 4 = 0 -> 1
      [] t % 4 = 1 -> Huge
      [] t % 4 = 2 -> -1
      [] t % 4 = 3 -> -Huge

\* Hyperbola.point_at(t, normalized)
HyperbolaPointAt(c, fs, t, normalized) ==
    LET a == Rescaled(t, normalized)
        secant == Secant(a)
    IN  ApplyPoint(c.transformation,
                   <<c.major * secant, c.minor * Sin(a) * secant, 0>>)

\* Hyperbola.tangent_at(t, normalized), Hyperbola.normal_at(t, normalized):
\* the parameter is rescaled, then the method raises.
HyperbolaTangentAt(c, fs, t, normalized) == Error("NotImplementedError")

HyperbolaNormalAt(c, fs, t, normalized) == Error("NotImplementedError")

\* Hyperbola.frame_at(t, normalized): evaluates the point, then the tangent
\* raises.
HyperbolaFrameAt(c, fs, t, normalized) ==
    LET t2 == Rescaled(t, normalized)
        point == HyperbolaPointAt(c, fs, t2, FALSE)
        xaxis == HyperbolaTangentAt(c, fs, t2, FALSE)
    IN  IF IsError(xaxis) THEN xaxis
        ELSE Frame(point, xaxis,
                   [v |-> Cross(Zaxis(fs[c.frame]), xaxis.v), n |-> xaxis.n])

\* Parabola.a = 1 / (4 * focal), applied to a number m: a * m.  The
\* parameters and focal distances used keep the quotient whole.
TimesA(c, m) == m \div (4 * c.focal)

\* Parabola.point_at(t): local (t, a * t^2, 0).
ParabolaPointAt(c, fs, t) ==
    ApplyPoint(c.transformation, <<t, TimesA(c, t * t), 0>>)

\* A tangent_at along the chord from (t, a t^2) to (2t, a (2t)^2).
ParabolaTangentAtChord(c, fs, t) ==
    LET x0 == t
        y0 == TimesA(c, t * t)
        x  == 2 * t
        y  == TimesA(c, x * x)
    IN  ApplyUnit(c.transformation, Unitize(<<x - x0, y - y0, 0>>))

\* Parabola.tangent_at(t): the secant from (x0, y0) = (t, a t^2) to
\* (x, y) = (2t, 2 a x0 x - y0).
ParabolaTangentAt(c, fs, t) ==
    LET x0 == t
        y0 == TimesA(c, t * t)
        x  == 2 * t
        y  == TimesA(c, 2 * x0 * x) - y0
    IN  ApplyUnit(c.transformation, Unitize(<<x - x0, y - y0, 0>>))

\* Parabola.normal_at(t)
ParabolaNormalAt(c, fs, t) ==
    LET x0 == t
        y0 == TimesA(c, t * t)
        x  == 2 * t
        y  == TimesA(c, 2 * x0 * x) - y0
    IN  ApplyUnit(c.transformation, Unitize(<<y0 - y, x - x0, 0>>))

\* Parabola.frame_at(t) calls point_at(t, normalized=False), a keyword
\* Parabola.point_at does not take.
ParabolaFrameAt(c, fs, t) == Error("TypeError")

\* The evaluators called without the flag (normalized=False), by kind.
PointAt(c, fs, t) ==
    CASE c.kind = "Circle"    -> CirclePointAt(c, fs, t, FALSE)
      [] c.kind = "Ellipse"   -> EllipsePointAt(c, fs, t, FALSE)
      [] c.kind = "Hyperbola" -> HyperbolaPointAt(c, fs, t, FALSE)
      [] c.kind = "Parabola"  -> ParabolaPointAt(c, fs, t)

TangentAt(c, fs, t) ==
    CASE c.kind = "Circle"    -> CircleTangentAt(c, fs, t, FALSE)
      [] c.kind = "Ellipse"   -> EllipseTangentAt(c, fs, t, FALSE)
      [] c.kind = "Hyperbola" -> HyperbolaTangentAt(c, fs, t, FALSE)
      [] c.kind = "Parabola"  -> ParabolaTangentAt(c, fs, t)

NormalAt(c, fs, t) ==
    CASE c.kind = "Circle"    -> CircleNormalAt(c, fs, t, FALSE)
      [] c.kind = "Ellipse"   -> EllipseNormalAt(c, fs, t, FALSE)
      [] c.kind = "Hyperbola" -> HyperbolaNormalAt(c, fs, t, FALSE)
      [] c.kind = "Parabola"  -> ParabolaNormalAt(c, fs, t)

FrameAt(c, fs, t) ==
    CASE c.kind = "Circle"    -> CircleFrameAt(c, fs, t, FALSE)
      [] c.kind = "Ellipse"   -> EllipseFrameAt(c, fs, t, FALSE)
      [] c.kind = "Hyperbola" -> HyperbolaFrameAt(c, fs, t, FALSE)
      [] c.kind = "Parabola"  -> ParabolaFrameAt(c, fs, t)

\* Everything the four evaluators of a conic return, over its parameters.
Evaluators(c, fs) ==
    [t \in Params(c.kind) |->
        [point_at   |-> PointAt(c, fs, t),
         tangent_at |-> TangentAt(c, fs, t),
         normal_at  |-> NormalAt(c, fs, t),
         frame_at   |-> FrameAt(c, fs, t)]]

\* ------------------------------------------------------------ operations

\* The record of an operation: its name, the conic (or frame) it was called
\* on, and its argument (a record naming what was passed).
Op(name, c, arg) == [op |-> name, c |-> c, arg |-> arg]

Enabled == nops < MaxOps

Done(op) == /\ nops' = nops + 1
            /\ last' = op
            /\ UNCHANGED <<lineVars, raceVars, mesh>>

\* cls(frame, ...) with a frame object the caller holds.
Construct(kind, f, p1, p2) ==
    /\ Enabled
    /\ Len(conics) < MaxConics
    /\ conics' = Append(conics, New(kind, f, frames, p1, p2))
    /\ UNCHANGED frames
    /\ Done(Op("construct", Len(conics) + 1, [frame |-> f]))

\* cls(None, ...): "frame or Frame.worldXY()" builds a fresh world frame.
ConstructDefault(kind, p1, p2) ==
    /\ Enabled
    /\ Len(conics) < MaxConics
    /\ frames' = Append(frames, WorldXY)
    /\ conics' = Append(conics, New(kind, Len(frames) + 1, frames', p1, p2))
    /\ Done(Op("construct", Len(conics) + 1, [frame |-> Len(frames) + 1]))

\* conic.frame = f, for a frame object f
SetFrame(c, f) ==
    /\ Enabled
    /\ conics' = [conics EXCEPT ![c] = FrameSetter(conics[c], f, frames)]
    /\ UNCHANGED frames
    /\ Done(Op("frame", c, [frame |-> f]))

\* Frame.point = p: the frame object stores a copy of p.
FramePointSetter(F, p) == [F EXCEPT !.point = p]

\* conic.point = p: "self.frame.point = point", on the conic's frame object.
PointSetter(c, fs, p) == [fs EXCEPT ![c.frame] = FramePointSetter(fs[c.frame], p)]

SetPoint(c, p) ==
    /\ Enabled
    /\ frames' = PointSetter(conics[c], frames, p)
    /\ UNCHANGED conics
    /\ Done(Op("point", c, [point |-> p]))

\* conic.point = None: Circle skips the assignment ("if point:"); the other
\* kinds hand None to the frame, which raises.  Nothing is stored.
SetPointNone(c) ==
    /\ Enabled
    /\ UNCHANGED <<frames, conics>>
    /\ Done(Op("point_none", c, [none |-> TRUE]))

\* Conic.transform(T): the frame object is transformed in place and the
\* cached transformation rebuilt from it.
ConicTransform(c, fs, T) ==
    LET fs2 == [fs EXCEPT ![c.frame] = FrameTransform(fs[c.frame], T)]
    IN  [frames |-> fs2, conic |-> [c EXCEPT !.transformation = FromFrame(fs2[c.frame])]]

\* Hyperbola.transform(T): "self.plane.transform(T)".  The plane property
\* builds a new Plane from the frame's point and normal; the new plane is
\* transformed and dropped.
HyperbolaTransform(c, fs, T) == [frames |-> fs, conic |-> c]

\* conic.transform(T), by kind
TransformOf(c, fs, T) ==
    IF c.kind = "Hyperbola" THEN HyperbolaTransform(c, fs, T)
    ELSE ConicTransform(c, fs, T)

Transform(c, T) ==
    /\ Enabled
    /\ LET r == TransformOf(conics[c], frames, T)
       IN  /\ frames' = r.frames
           /\ conics' = [conics EXCEPT ![c] = r.conic]
    /\ Done(Op("transform", c, [T |-> T]))

\* A radius setter that also resets the cached transformation.
RadiusSetterResettingCache(c, radius) ==
    [c EXCEPT !.radius = Float(radius), !.transformation = FromFrame(WorldXY)]

\* The radius, major, minor and focal setters.
RadiusSetter(c, radius) == [c EXCEPT !.radius = Float(radius)]

MajorSetter(c, major) == [c EXCEPT !.major = Float(major)]

MinorSetter(c, minor) == [c EXCEPT !.minor = Float(minor)]

FocalSetter(c, focal) == [c EXCEPT !.focal = focal]

SetRadius(c, v) ==
    /\ Enabled
    /\ conics[c].kind = "Circle"
    /\ conics' = [conics EXCEPT ![c] = RadiusSetter(conics[c], v)]
    /\ UNCHANGED frames
    /\ Done(Op("radius", c, [value |-> v]))

SetMajor(c, v) ==
    /\ Enabled
    /\ conics[c].kind \in {"Ellipse", "Hyperbola"}
    /\ conics' = [conics EXCEPT ![c] = MajorSetter(conics[c], v)]
    /\ UNCHANGED frames
    /\ Done(Op("major", c, [value |-> v]))

SetMinor(c, v) ==
    /\ Enabled
    /\ conics[c].kind \in {"Ellipse", "Hyperbola"}
    /\ conics' = [conics EXCEPT ![c] = MinorSetter(conics[c], v)]
    /\ UNCHANGED frames
    /\ Done(Op("minor", c, [value |-> v]))

SetFocal(c, v) ==
    /\ Enabled
    /\ conics[c].kind = "Parabola"
    /\ conics' = [conics EXCEPT ![c] = FocalSetter(conics[c], v)]
    /\ UNCHANGED frames
    /\ Done(Op("focal", c, [value |-> v]))

\* Data.copy(): cls.from_data(deepcopy(self.data)).  The deep copy holds a
\* new frame object with the value of the conic's frame.
Copy(c, fs) ==
    LET fs2 == Append(fs, fs[c.frame])
        data == [Data(c) EXCEPT !.frame = Len(fs2)]
    IN  [frames |-> fs2, conic |-> FromData(c.kind, data, fs2)]

\* Geometry.transformed(T): copy, transform the copy, return it.
TransformedOf(c, fs, T) ==
    LET geometry == Copy(c, fs)
    IN  TransformOf(geometry.conic, geometry.frames, T)

Transformed(c, T) ==
    /\ Enabled
    /\ Len(conics) < MaxConics
    /\ LET r == TransformedOf(conics[c], frames, T)
       IN  /\ frames' = r.frames
           /\ conics' = Append(conics, r.conic)
    /\ Done(Op("transformed", c, [T |-> T]))

\* Geometry.translated(vector): copy, translate the copy, return it.
TranslatedOf(c, fs, vector) ==
    LET geometry == Copy(c, fs)
    IN  TransformOf(geometry.conic, geometry.frames, Translation(vector))

Translated(c, vector) ==
    /\ Enabled
    /\ Len(conics) < MaxConics
    /\ LET r == TranslatedOf(conics[c], frames, vector)
       IN  /\ frames' = r.frames
           /\ conics' = Append(conics, r.conic)
    /\ Done(Op("translated", c, [T |-> Translation(vector)]))

\* cls.from_data(conic.data): the data holds the conic's own frame object.
Rebuild(c) ==
    /\ Enabled
    /\ Len(conics) < MaxConics
    /\ conics' = Append(conics, FromData(conics[c].kind, Data(conics[c]), frames))
    /\ UNCHANGED frames
    /\ Done(Op("from_data", c, [none |-> TRUE]))

\* The caller moves the origin of a frame object it holds.
CallerSetsFramePoint(f, p) ==
    /\ Enabled
    /\ frames' = [frames EXCEPT ![f] = FramePointSetter(frames[f], p)]
    /\ UNCHANGED conics
    /\ Done(Op("caller_point", f, [point |-> p]))

\* The caller transforms a frame object it holds.
CallerTransformsFrame(f, T) ==
    /\ Enabled
    /\ frames' = [frames EXCEPT ![f] = FrameTransform(frames[f], T)]
    /\ UNCHANGED conics
    /\ Done(Op("caller_transform", f, [T |-> T]))

\* The conics the model starts from: one of each kind, built from the
\* caller's frame object.
InitialShape(kind) ==
    CASE kind = "Circle"    -> <<2, 2>>
      [] kind = "Ellipse"   -> <<2, 1>>
      [] kind = "Hyperbola" -> <<2, 1>>
      [] kind = "Parabola"  -> <<1, 1>>

Init ==
    /\ frames \in {<<F>> : F \in InputFrames}
    /\ \E kind \in Kinds :
          conics = <<New(kind, 1, frames, InitialShape(kind)[1], InitialShape(kind)[2])>>
    /\ nops = 0
    /\ last = Op("construct", 1, [frame |-> 1])
    /\ line = None /\ lcopy = None /\ lret = None
    /\ wr = None /\ rd = None /\ mesh = None

Next ==
    \/ \E kind \in Kinds, f \in DOMAIN frames :
          Construct(kind, f, InitialShape(kind)[1], InitialShape(kind)[2])
    \/ \E kind \in Kinds :
          ConstructDefault(kind, InitialShape(kind)[1], InitialShape(kind)[2])
    \/ \E c \in DOMAIN conics, f \in DOMAIN frames : SetFrame(c, f)
    \/ \E c \in DOMAIN conics, p \in InputPoints : SetPoint(c, p)
    \/ \E c \in DOMAIN conics : SetPointNone(c)
    \/ \E c \in DOMAIN conics, T \in InputTransformations : Transform(c, T)
    \/ \E c \in DOMAIN conics, v \in ShapeInputs : SetRadius(c, v)
    \/ \E c \in DOMAIN conics, v \in ShapeInputs : SetMajor(c, v)
    \/ \E c \in DOMAIN conics, v \in ShapeInputs : SetMinor(c, v)
    \/ \E c \in DOMAIN conics, v \in ShapeInputs : SetFocal(c, v)
    \/ \E c \in DOMAIN conics, T \in InputTransformations : Transformed(c, T)
    \/ \E c \in DOMAIN conics, v \in InputPoints : Translated(c, v)
    \/ \E c \in DOMAIN conics : Rebuild(c)
    \/ \E f \in DOMAIN frames, p \in InputPoints : CallerSetsFramePoint(f, p)
    \/ \E f \in DOMAIN frames, T \in InputTransformations : CallerTransformsFrame(f, T)

Spec == Init /\ [][Next]_vars

\* ------------------------------------------- evaluation of a single conic

\* The record of a call that returned: the operation, and what it returned
\* or raised (always a record).
Returned(name, c, arg, ret) == [op |-> name, c |-> c, arg |-> arg, ret |-> ret]

\* conic.point_at(t) / conic.point_at(t, normalized=True), by kind.
\* Parabola.point_at takes no such keyword.
PointAtCall(c, fs, t, normalized) ==
    CASE c.kind = "Circle"    -> [point |-> CirclePointAt(c, fs, t, normalized)]
      [] c.kind = "Ellipse"   -> [point |-> EllipsePointAt(c, fs, t, normalized)]
      [] c.kind = "Hyperbola" -> [point |-> HyperbolaPointAt(c, fs, t, normalized)]
      [] c.kind = "Parabola"  -> IF normalized THEN Error("TypeError")
                                 ELSE [point |-> ParabolaPointAt(c, fs, t)]

TangentAtCall(c, fs, t, normalized) ==
    CASE c.kind = "Circle"    -> CircleTangentAt(c, fs, t, normalized)
      [] c.kind = "Ellipse"   -> EllipseTangentAt(c, fs, t, normalized)
      [] c.kind = "Hyperbola" -> HyperbolaTangentAt(c, fs, t, normalized)
      [] c.kind = "Parabola"  -> IF normalized THEN Error("TypeError")
                                 ELSE ParabolaTangentAt(c, fs, t)

NormalAtCall(c, fs, t, normalized) ==
    CASE c.kind = "Circle"    -> CircleNormalAt(c, fs, t, normalized)
      [] c.kind = "Ellipse"   -> EllipseNormalAt(c, fs, t, normalized)
      [] c.kind = "Hyperbola" -> HyperbolaNormalAt(c, fs, t, normalized)
      [] c.kind = "Parabola"  -> IF normalized THEN Error("TypeError")
                                 ELSE ParabolaNormalAt(c, fs, t)

FrameAtCall(c, fs, t, normalized) ==
    CASE c.kind = "Circle"    -> CircleFrameAt(c, fs, t, normalized)
      [] c.kind = "Ellipse"   -> EllipseFrameAt(c, fs, t, normalized)
      [] c.kind = "Hyperbola" -> HyperbolaFrameAt(c, fs, t, normalized)
      [] c.kind = "Parabola"  -> IF normalized THEN Error("TypeError")
                                 ELSE ParabolaFrameAt(c, fs, t)

\* The parameters the callers pass: angles (with the poles of the
\* hyperbola), abscissas of the parabola, or normalized parameters.
EvalParams(kind, normalized) ==
    IF kind = "Parabola" THEN Params(kind)
    ELSE IF normalized THEN NormalizedParams
    ELSE IF kind = "Hyperbola" THEN Params(kind) \cup HyperbolaPoles
    ELSE Params(kind)

\* An evaluation changes nothing of the conic: there is no assignment in
\* any evaluator.
Evaluated(ret) ==
    /\ Enabled
    /\ nops' = nops + 1
    /\ last' = ret
    /\ UNCHANGED <<frames, conics, lineVars, raceVars, mesh>>

EvalPointAt(c, t, normalized) ==
    Evaluated(Returned("point_at", c, [t |-> t, normalized |-> normalized],
                       PointAtCall(conics[c], frames, t, normalized)))

EvalTangentAt(c, t, normalized) ==
    Evaluated(Returned("tangent_at", c, [t |-> t, normalized |-> normalized],
                       TangentAtCall(conics[c], frames, t, normalized)))

EvalNormalAt(c, t, normalized) ==
    Evaluated(Returned("normal_at", c, [t |-> t, normalized |-> normalized],
                       NormalAtCall(conics[c], frames, t, normalized)))

EvalFrameAt(c, t, normalized) ==
    Evaluated(Returned("frame_at", c, [t |-> t, normalized |-> normalized],
                       FrameAtCall(conics[c], frames, t, normalized)))

\* A number sqrt(num / den), kept exact as the fraction under the root.
Root(num, den) == [num |-> num, den |-> den]

\* Circle.eccentricity, Parabola.eccentricity: the literals 0 and 1.
CircleEccentricity(c) == Root(0, 1)

ParabolaEccentricity(c) == Root(1, 1)

\* Ellipse.eccentricity: sqrt(1 - (minor / major) ** 2).  The division
\* raises for major = 0 and math.sqrt raises on a negative number.
EllipseEccentricity(c) ==
    IF c.major = 0 THEN Error("ZeroDivisionError")
    ELSE IF c.major * c.major - c.minor * c.minor < 0 THEN Error("ValueError")
    ELSE Root(c.major * c.major - c.minor * c.minor, c.major * c.major)

\* Hyperbola.semifocal = sqrt(major**2 + minor**2);
\* Hyperbola.eccentricity = semifocal / major, for major > 0.
HyperbolaEccentricity(c) ==
    IF c.major = 0 THEN Error("ZeroDivisionError")
    ELSE Root(c.major * c.major + c.minor * c.minor, c.major * c.major)

Eccentricity(c) ==
    CASE c.kind = "Circle"    -> CircleEccentricity(c)
      [] c.kind = "Ellipse"   -> EllipseEccentricity(c)
      [] c.kind = "Hyperbola" -> HyperbolaEccentricity(c)
      [] c.kind = "Parabola"  -> ParabolaEccentricity(c)

ReadEccentricity(c) ==
    Evaluated(Returned("eccentricity", c, [none |-> TRUE], Eccentricity(conics[c])))

\* Hyperbola.asymptote1, Hyperbola.asymptote2: the body is "pass", and the
\* property returns None.
Asymptote1(c) == [none |-> TRUE]

Asymptote2(c) == [none |-> TRUE]

ReadAsymptote1(c) ==
    /\ conics[c].kind = "Hyperbola"
    /\ Evaluated(Returned("asymptote1", c, [none |-> TRUE], Asymptote1(conics[c])))

ReadAsymptote2(c) ==
    /\ conics[c].kind = "Hyperbola"
    /\ Evaluated(Returned("asymptote2", c, [none |-> TRUE], Asymptote2(conics[c])))

\* An area that is computed: pi * major * minor.
EllipseAreaComputed(c) == [pi_times |-> c.major * c.minor]

\* Ellipse.area, Ellipse.circumference
EllipseArea(c) == Error("NotImplementedError")

EllipseCircumference(c) == Error("NotImplementedError")

ReadArea(c) ==
    /\ conics[c].kind = "Ellipse"
    /\ Evaluated(Returned("area", c, [none |-> TRUE], EllipseArea(conics[c])))

ReadCircumference(c) ==
    /\ conics[c].kind = "Ellipse"
    /\ Evaluated(Returned("circumference", c, [none |-> TRUE],
                          EllipseCircumference(conics[c])))

\* Parabola.focus, Parabola.vertex, Parabola.directix: read from the frame.
ParabolaFocus(c, fs) == Add(fs[c.frame].point, Scale(fs[c.frame].yaxis, c.focal))

ParabolaVertex(c, fs) == fs[c.frame].point

ParabolaDirectix(c, fs) ==
    LET point == Add(fs[c.frame].point, Scale(fs[c.frame].yaxis, -c.focal))
    IN  [start |-> point, end |-> Add(point, fs[c.frame].xaxis)]

ReadFocus(c) ==
    /\ conics[c].kind = "Parabola"
    /\ Evaluated(Returned("focus", c, [none |-> TRUE],
                          [point |-> ParabolaFocus(conics[c], frames)]))

ReadVertex(c) ==
    /\ conics[c].kind = "Parabola"
    /\ Evaluated(Returned("vertex", c, [none |-> TRUE],
                          [point |-> ParabolaVertex(conics[c], frames)]))

ReadDirectix(c) ==
    /\ conics[c].kind = "Parabola"
    /\ Evaluated(Returned("directix", c, [none |-> TRUE],
                          ParabolaDirectix(conics[c], frames)))

\* Ellipse.semifocal: sqrt(major**2 - minor**2); math.sqrt raises on a
\* negative number.
EllipseSemifocal(c) ==
    IF c.major * c.major - c.minor * c.minor < 0 THEN Error("ValueError")
    ELSE Root(c.major * c.major - c.minor * c.minor, 1)

\* The point "point + along * (sign * by) + plus", with by a square root
\* kept exact.
Offset(point, along, sign, by, plus) ==
    [point |-> point, along |-> along, sign |-> sign, by |-> by, plus |-> plus]

\* Ellipse.focus1 = point + xaxis * semifocal,
\* Ellipse.focus2 = point + xaxis * -semifocal.
EllipseFocus1(c, fs) ==
    IF IsError(EllipseSemifocal(c)) THEN EllipseSemifocal(c)
    ELSE Offset(fs[c.frame].point, fs[c.frame].xaxis, 1, EllipseSemifocal(c), Zero)

EllipseFocus2(c, fs) ==
    IF IsError(EllipseSemifocal(c)) THEN EllipseSemifocal(c)
    ELSE Offset(fs[c.frame].point, fs[c.frame].xaxis, -1, EllipseSemifocal(c), Zero)

\* Ellipse.directix1 = Line(focus1, focus1 + yaxis),
\* Ellipse.directix2 = Line(focus2, focus2 + yaxis).
EllipseDirectix1(c, fs) ==
    LET point == EllipseFocus1(c, fs)
    IN  IF IsError(point) THEN point
        ELSE [start |-> point,
              end |-> [point EXCEPT !.plus = Add(point.plus, fs[c.frame].yaxis)]]

EllipseDirectix2(c, fs) ==
    LET point == EllipseFocus2(c, fs)
    IN  IF IsError(point) THEN point
        ELSE [start |-> point,
              end |-> [point EXCEPT !.plus = Add(point.plus, fs[c.frame].yaxis)]]

ReadFocus1(c) ==
    /\ conics[c].kind = "Ellipse"
    /\ Evaluated(Returned("focus1", c, [none |-> TRUE],
                          EllipseFocus1(conics[c], frames)))

ReadFocus2(c) ==
    /\ conics[c].kind = "Ellipse"
    /\ Evaluated(Returned("focus2", c, [none |-> TRUE],
                          EllipseFocus2(conics[c], frames)))

ReadDirectix1(c) ==
    /\ conics[c].kind = "Ellipse"
    /\ Evaluated(Returned("directix1", c, [none |-> TRUE],
                          EllipseDirectix1(conics[c], frames)))

ReadDirectix2(c) ==
    /\ conics[c].kind = "Ellipse"
    /\ Evaluated(Returned("directix2", c, [none |-> TRUE],
                          EllipseDirectix2(conics[c], frames)))

\* A parameter bound: a finite number of quarter turns, or an infinity of
\* either sign (float("inf"), float("-inf")).
Finite(k) == [inf |-> 0, at |-> k]

PlusInf == [inf |-> 1, at |-> 0]

MinusInf == [inf |-> -1, at |-> 0]

\* a < b on parameter bounds; an infinity is not less than itself.
Less(a, b) == \/ a.inf < b.inf
              \/ a.inf = 0 /\ b.inf = 0 /\ a.at < b.at

\* The angle 2 * pi, in quarter turns.
TwoPi == 4

\* domain: "0, 2 * pi" for Circle, Ellipse and Hyperbola,
\* "float("-inf"), float("+inf")" for Parabola.
Domain(c) ==
    IF c.kind = "Parabola" THEN [tmin |-> MinusInf, tmax |-> PlusInf]
    ELSE [tmin |-> Finite(0), tmax |-> Finite(TwoPi)]

\* is_periodic, is_closed: True for Circle and Ellipse, False for Hyperbola
\* and Parabola.
IsPeriodic(c) == c.kind \in {"Circle", "Ellipse"}

IsClosed(c) == c.kind \in {"Circle", "Ellipse"}

ReadDomain(c) ==
    Evaluated(Returned("domain", c, [none |-> TRUE], Domain(conics[c])))

ReadIsPeriodic(c) ==
    Evaluated(Returned("is_periodic", c, [none |-> TRUE],
                       [bool |-> IsPeriodic(conics[c])]))

ReadIsClosed(c) ==
    Evaluated(Returned("is_closed", c, [none |-> TRUE],
                       [bool |-> IsClosed(conics[c])]))

\* Curve.start, Curve.end: "raise NotImplementedError".
CurveStart == Error("NotImplementedError")

CurveEnd == Error("NotImplementedError")

\* Circle.start: point + xaxis * radius, read from the frame.
CircleStart(c, fs) ==
    [point |-> Add(fs[c.frame].point, Scale(fs[c.frame].xaxis, c.radius))]

\* conic.start: Circle overrides it, the other conics inherit Curve.start.
Start(c, fs) == IF c.kind = "Circle" THEN CircleStart(c, fs) ELSE CurveStart

\* conic.end: no conic overrides Curve.end.
End(c, fs) == CurveEnd

ReadStart(c) ==
    Evaluated(Returned("start", c, [none |-> TRUE], Start(conics[c], frames)))

ReadEnd(c) ==
    Evaluated(Returned("end", c, [none |-> TRUE], End(conics[c], frames)))

\* One conic of any kind, on a frame the caller built, with the shape
\* parameters the caller chose.
EvalInit ==
    /\ frames \in {<<F>> : F \in InputFrames}
    /\ \E kind \in Kinds, p1 \in ShapeInputs, p2 \in ShapeInputs :
          conics = <<New(kind, 1, frames, p1, p2)>>
    /\ nops = 0
    /\ last = Op("construct", 1, [frame |-> 1])
    /\ line = None /\ lcopy = None /\ lret = None
    /\ wr = None /\ rd = None /\ mesh = None

\* The conic is mutated through its public operations and evaluated in
\* between.
EvalNext ==
    \/ \E c \in DOMAIN conics, f \in DOMAIN frames : SetFrame(c, f)
    \/ \E c \in DOMAIN conics, p \in InputPoints : SetPoint(c, p)
    \/ \E c \in DOMAIN conics, T \in InputTransformations : Transform(c, T)
    \/ \E c \in DOMAIN conics, v \in ShapeInputs : SetRadius(c, v)
    \/ \E c \in DOMAIN conics, v \in ShapeInputs : SetMajor(c, v)
    \/ \E c \in DOMAIN conics, v \in ShapeInputs : SetMinor(c, v)
    \/ \E c \in DOMAIN conics, v \in ShapeInputs : SetFocal(c, v)
    \/ \E c \in DOMAIN conics, n \in BOOLEAN :
          \E t \in EvalParams(conics[c].kind, n) : EvalPointAt(c, t, n)
    \/ \E c \in DOMAIN conics, n \in BOOLEAN :
          \E t \in EvalParams(conics[c].kind, n) : EvalTangentAt(c, t, n)
    \/ \E c \in DOMAIN conics, n \in BOOLEAN :
          \E t \in EvalParams(conics[c].kind, n) : EvalNormalAt(c, t, n)
    \/ \E c \in DOMAIN conics, n \in BOOLEAN :
          \E t \in EvalParams(conics[c].kind, n) : EvalFrameAt(c, t, n)
    \/ \E c \in DOMAIN conics : ReadEccentricity(c)
    \/ \E c \in DOMAIN conics : ReadAsymptote1(c)
    \/ \E c \in DOMAIN conics : ReadAsymptote2(c)
    \/ \E c \in DOMAIN conics : ReadArea(c)
    \/ \E c \in DOMAIN conics : ReadCircumference(c)
    \/ \E c \in DOMAIN conics : ReadFocus(c)
    \/ \E c \in DOMAIN conics : ReadVertex(c)
    \/ \E c \in DOMAIN conics : ReadDirectix(c)
    \/ \E c \in DOMAIN conics : ReadDomain(c)
    \/ \E c \in DOMAIN conics : ReadIsPeriodic(c)
    \/ \E c \in DOMAIN conics : ReadFocus1(c)
    \/ \E c \in DOMAIN conics : ReadFocus2(c)
    \/ \E c \in DOMAIN conics : ReadDirectix1(c)
    \/ \E c \in DOMAIN conics : ReadDirectix2(c)
    \/ \E c \in DOMAIN conics : ReadIsClosed(c)
    \/ \E c \in DOMAIN conics : ReadStart(c)
    \/ \E c \in DOMAIN conics : ReadEnd(c)

SpecEval == EvalInit /\ [][EvalNext]_vars

\* ------------------------------------ shape parameters at the boundary

\* Values a caller may hand to a constructor or a shape setter, valid or not.
ShapeValues == {-1, 0, 1, 2}

\* One valid conic; what follows may hand any value to a constructor or a
\* shape setter.
ShapeInit ==
    /\ frames \in {<<F>> : F \in InputFrames}
    /\ \E kind \in Kinds, p1 \in ShapeInputs, p2 \in ShapeInputs :
          conics = <<New(kind, 1, frames, p1, p2)>>
    /\ nops = 0
    /\ last = Op("construct", 1, [frame |-> 1])
    /\ line = None /\ lcopy = None /\ lret = None
    /\ wr = None /\ rd = None /\ mesh = None

ShapeNext ==
    \/ \E kind \in Kinds, f \in DOMAIN frames, p1 \in ShapeValues, p2 \in ShapeValues :
          Construct(kind, f, p1, p2)
    \/ \E c \in DOMAIN conics, v \in ShapeValues : SetRadius(c, v)
    \/ \E c \in DOMAIN conics, v \in ShapeValues : SetMajor(c, v)
    \/ \E c \in DOMAIN conics, v \in ShapeValues : SetMinor(c, v)
    \/ \E c \in DOMAIN conics, v \in ShapeValues : SetFocal(c, v)

SpecShape == ShapeInit /\ [][ShapeNext]_vars

\* ----------------------------------------------------------------- Line

\* Points the callers pass to the Line constructor and setters.
LinePoints == {Zero, <<1, 0, 0>>, <<0, 2, 0>>, <<1, 1, 1>>}

\* Parameters at which the line is evaluated.
LineParams == {-1, 0, 1, 2}

\* Transformations the callers pass to Line.transform / transformed.
LineTransformations == {RotZ, RotX, Translation(<<1, 0, 0>>)}

\* A pure rotation: about an axis through the origin.
IsRotation(T) == T.tr = Zero

\* Vector.length: the square root of the dot product, kept exact as the
\* number under the root.
Length(v) == [sqrt |-> Dot(v, v)]

\* Line.__init__(p1, p2): the setters store Point(*p), a copy.
LineInit(p1, p2) == [start |-> p1, end |-> p2]

\* Line.start / Line.end / Line.point setters
LineStartSetter(l, point) == [l EXCEPT !.start = point]

LineEndSetter(l, point) == [l EXCEPT !.end = point]

LinePointSetter(l, point) == [l EXCEPT !.start = point]

\* Line.vector, Line.length
LineVector(l) == Sub(l.end, l.start)

LineLength(l) == Length(LineVector(l))

\* A point_at that clamps the parameter to the segment.
LinePointAtClamped(l, t) ==
    IF t <= 0 THEN [alias |-> "start", value |-> l.start]
    ELSE IF t >= 1 THEN [alias |-> "end", value |-> l.end]
    ELSE [alias |-> "none", value |-> Add(l.start, Scale(LineVector(l), t))]

\* Line.point_at(t): the start OBJECT at t = 0, the end OBJECT at t = 1,
\* otherwise a new point.  alias names the object returned.
LinePointAt(l, t) ==
    IF t = 0 THEN [alias |-> "start", value |-> l.start]
    ELSE IF t = 1 THEN [alias |-> "end", value |-> l.end]
    ELSE [alias |-> "none", value |-> Add(l.start, Scale(LineVector(l), t))]

\* Line.is_periodic, Line.is_closed: False.
LineIsPeriodic(l) == FALSE

LineIsClosed(l) == FALSE

\* Line.domain: "return float("inf"), float("inf")".
LineDomain(l) == [tmin |-> PlusInf, tmax |-> PlusInf]

\* Vector.Zaxis()
WorldZ == <<0, 0, 1>>

\* Line.direction: vector * (1 / length).  The length of a line whose start
\* equals its end is 0.0 and the division raises.
LineDirection(l) ==
    IF LineLength(l) = Length(Zero) THEN Error("ZeroDivisionError")
    ELSE Unitize(LineVector(l))

\* Line.tangent_at(t): the direction, whatever t.
LineTangentAt(l, t) == LineDirection(l)

\* A normal_at that returns the cross product as it is.
LineNormalAtNotUnitized(l, t) ==
    LET xaxis == LineVector(l)
        yaxis == Cross(WorldZ, xaxis)
    IN  [v |-> yaxis, n |-> Dot(yaxis, yaxis)]

\* Line.normal_at(t): world z cross the line vector, unitized.
LineNormalAt(l, t) ==
    LET xaxis == LineVector(l)
        yaxis == Cross(WorldZ, xaxis)
    IN  Unitize(yaxis)

\* Frame(point, xaxis, yaxis): the constructor unitizes the x axis and
\* makes the y axis the unit vector perpendicular to it in the plane of the
\* two; with yaxis already perpendicular to xaxis that is unitize(yaxis).
FrameInit(point, xaxis, yaxis) ==
    IF IsError(Unitize(xaxis)) THEN Unitize(xaxis)
    ELSE IF IsError(Unitize(yaxis)) THEN Unitize(yaxis)
    ELSE Frame(point, Unitize(xaxis), Unitize(yaxis))

\* Line.frame_at(t): Frame(point_at(t), vector, world z cross vector).
LineFrameAt(l, t) ==
    LET point == LinePointAt(l, t).value
        xaxis == LineVector(l)
        yaxis == Cross(WorldZ, xaxis)
    IN  FrameInit(point, xaxis, yaxis)

\* A transform that forgets the end point.
LineTransformStartOnly(l, T) == [l EXCEPT !.start = ApplyPoint(T, l.start)]

\* Line.transform(T): both Point objects are transformed in place.
LineTransform(l, T) ==
    [start |-> ApplyPoint(T, l.start), end |-> ApplyPoint(T, l.end)]

\* Line.data, Line.from_data
LineData(l) == [start |-> l.start, end |-> l.end]

LineFromData(data) == LineInit(data.start, data.end)

\* Data.copy() of a line: from_data(deepcopy(data)).
LineCopy(l) == LineFromData(LineData(l))

\* Geometry.transformed(T) of a line
LineTransformed(l, T) == LineTransform(LineCopy(l), T)

\* What a returned point reads as after the line changed to l2: a point
\* that IS the line's start or end object follows an in-place change.
Follow(r, l2) ==
    CASE r.alias = "start" -> [r EXCEPT !.value = l2.start]
      [] r.alias = "end"   -> [r EXCEPT !.value = l2.end]
      [] OTHER             -> r

\* What a returned point becomes when the setter named which replaces that
\* object of the line: the old object lives on, detached.
Detach(r, which) == IF r.alias = which THEN [r EXCEPT !.alias = "none"] ELSE r

LineDone(op) ==
    /\ nops' = nops + 1
    /\ last' = op
    /\ UNCHANGED <<conicVars, raceVars, mesh>>

LSetStart(p) ==
    /\ Enabled
    /\ line' = LineStartSetter(line, p)
    /\ lret' = Detach(lret, "start")
    /\ UNCHANGED lcopy
    /\ LineDone(Op("start", 0, [point |-> p]))

LSetEnd(p) ==
    /\ Enabled
    /\ line' = LineEndSetter(line, p)
    /\ lret' = Detach(lret, "end")
    /\ UNCHANGED lcopy
    /\ LineDone(Op("end", 0, [point |-> p]))

LSetPoint(p) ==
    /\ Enabled
    /\ line' = LinePointSetter(line, p)
    /\ lret' = Detach(lret, "start")
    /\ UNCHANGED lcopy
    /\ LineDone(Op("point", 0, [point |-> p]))

LPointAt(t) ==
    /\ Enabled
    /\ lret' = LinePointAt(line, t)
    /\ UNCHANGED <<line, lcopy>>
    /\ LineDone(Op("point_at", 0, [t |-> t]))

\* The evaluators that return a new object each time.
LDirection ==
    /\ Enabled
    /\ lret' = [alias |-> "none", value |-> LineDirection(line)]
    /\ UNCHANGED <<line, lcopy>>
    /\ LineDone(Op("direction", 0, [none |-> TRUE]))

LTangentAt(t) ==
    /\ Enabled
    /\ lret' = [alias |-> "none", value |-> LineTangentAt(line, t)]
    /\ UNCHANGED <<line, lcopy>>
    /\ LineDone(Op("tangent_at", 0, [t |-> t]))

LNormalAt(t) ==
    /\ Enabled
    /\ lret' = [alias |-> "none", value |-> LineNormalAt(line, t)]
    /\ UNCHANGED <<line, lcopy>>
    /\ LineDone(Op("normal_at", 0, [t |-> t]))

LFrameAt(t) ==
    /\ Enabled
    /\ lret' = [alias |-> "none", value |-> LineFrameAt(line, t)]
    /\ UNCHANGED <<line, lcopy>>
    /\ LineDone(Op("frame_at", 0, [t |-> t]))

\* The properties: each read returns a new value.
LDomain ==
    /\ Enabled
    /\ lret' = [alias |-> "none", value |-> LineDomain(line)]
    /\ UNCHANGED <<line, lcopy>>
    /\ LineDone(Op("domain", 0, [none |-> TRUE]))

LIsPeriodic ==
    /\ Enabled
    /\ lret' = [alias |-> "none", value |-> [bool |-> LineIsPeriodic(line)]]
    /\ UNCHANGED <<line, lcopy>>
    /\ LineDone(Op("is_periodic", 0, [none |-> TRUE]))

LIsClosed ==
    /\ Enabled
    /\ lret' = [alias |-> "none", value |-> [bool |-> LineIsClosed(line)]]
    /\ UNCHANGED <<line, lcopy>>
    /\ LineDone(Op("is_closed", 0, [none |-> TRUE]))

LTransform(T) ==
    /\ Enabled
    /\ line' = LineTransform(line, T)
    /\ lret' = Follow(lret, line')
    /\ UNCHANGED lcopy
    /\ LineDone(Op("transform", 0, [T |-> T]))

\* The line after the caller gave the value p to the returned object r: an
\* object that IS the line's start or end changes the line.
WriteThrough(l, r, p) ==
    CASE r.alias = "start" -> [l EXCEPT !.start = p]
      [] r.alias = "end"   -> [l EXCEPT !.end = p]
      [] OTHER             -> l

\* The caller holds the point that point_at returned.
HoldsReturnedPoint == last.op \in {"point_at", "returned.xyz", "returned.transform"}

\* The caller assigns the coordinates of the point that point_at returned.
LMutateReturned(p) ==
    /\ Enabled
    /\ HoldsReturnedPoint
    /\ lret' = [lret EXCEPT !.value = p]
    /\ line' = WriteThrough(line, lret, p)
    /\ UNCHANGED lcopy
    /\ LineDone(Op("returned.xyz", 0, [point |-> p]))

\* The caller transforms the point that point_at returned, in place.
LTransformReturned(T) ==
    /\ Enabled
    /\ HoldsReturnedPoint
    /\ lret' = [lret EXCEPT !.value = ApplyPoint(T, lret.value)]
    /\ line' = WriteThrough(line, lret, ApplyPoint(T, lret.value))
    /\ UNCHANGED lcopy
    /\ LineDone(Op("returned.transform", 0, [T |-> T]))

LTransformed(T) ==
    /\ Enabled
    /\ lcopy' = LineTransformed(line, T)
    /\ UNCHANGED <<line, lret>>
    /\ LineDone(Op("transformed", 0, [T |-> T]))

LineSpecInit ==
    /\ line \in {LineInit(p1, p2) : p1 \in LinePoints, p2 \in LinePoints}
    /\ lcopy = LineCopy(line)
    /\ lret = [alias |-> "none", value |-> Zero]
    /\ nops = 0
    /\ last = Op("construct", 0, [none |-> TRUE])
    /\ frames = <<>> /\ conics = <<>>
    /\ wr = None /\ rd = None /\ mesh = None

LineNext ==
    \/ \E p \in LinePoints : LSetStart(p)
    \/ \E p \in LinePoints : LSetEnd(p)
    \/ \E p \in LinePoints : LSetPoint(p)
    \/ \E t \in LineParams : LPointAt(t)
    \/ LDirection
    \/ \E t \in LineParams : LTangentAt(t)
    \/ \E t \in LineParams : LNormalAt(t)
    \/ \E t \in LineParams : LFrameAt(t)
    \/ LDomain
    \/ LIsPeriodic
    \/ LIsClosed
    \/ \E T \in LineTransformations : LTransform(T)
    \/ \E T \in LineTransformations : LTransformed(T)
    \/ \E p \in LinePoints : LMutateReturned(p)
    \/ \E T \in LineTransformations : LTransformReturned(T)

SpecLine == LineSpecInit /\ [][LineNext]_vars

\* ------------------------------------- frame setter against normal_at

\* The frame objects the writing thread assigns, one after another.
RaceFrames ==
    <<WorldXY,
      Frame(<<1, 0, 0>>, <<0, 1, 0>>, <<-1, 0, 0>>),
      Frame(<<0, 1, 0>>, <<1, 0, 0>>, <<0, 1, 0>>)>>

\* A step of the writer seen by a reader in the middle of an evaluation.
Overlapped(r) == IF r.pc = "point" THEN [r EXCEPT !.overlap = TRUE] ELSE r

\* First statement of the frame setter: self._frame = frame.
WriterAssign(f) ==
    /\ wr.pc = "idle"
    /\ conics' = [conics EXCEPT ![1] = FrameSetterAssign(conics[1], f)]
    /\ wr' = [pc |-> "assigned", f |-> f]
    /\ rd' = Overlapped(rd)
    /\ UNCHANGED <<frames, nops, last, lineVars, mesh>>

\* Second statement: self._transformation = Transformation.from_frame(frame).
WriterRebuild ==
    /\ wr.pc = "assigned"
    /\ conics' = [conics EXCEPT ![1] = FrameSetterRebuild(conics[1], frames)]
    /\ wr' = [wr EXCEPT !.pc = "idle"]
    /\ rd' = Overlapped(rd)
    /\ UNCHANGED <<frames, nops, last, lineVars, mesh>>

\* Circle.normal_at(t), first statement: a = self.point_at(t), which reads
\* the cached transformation T.
ReaderPointAt(t) ==
    /\ rd.pc \in {"idle", "done"}
    /\ rd' = [pc |-> "point", t |-> t,
              T |-> conics[1].transformation,
              a |-> CirclePointAt(conics[1], frames, t, FALSE),
              F |-> rd.F, b |-> rd.b,
              overlap |-> wr.pc # "idle"]
    /\ UNCHANGED <<frames, conics, wr, nops, last, lineVars, mesh>>

\* Circle.normal_at(t), second statement: b = self.point, which reads the
\* frame F; the normal is unitize(b - a).
ReaderCenter ==
    /\ rd.pc = "point"
    /\ rd' = [rd EXCEPT !.pc = "done",
                        !.F = frames[conics[1].frame],
                        !.b = frames[conics[1].frame].point]
    /\ UNCHANGED <<frames, conics, wr, nops, last, lineVars, mesh>>

RaceInit ==
    /\ frames = RaceFrames
    /\ conics = <<CircleInit(1, frames, 2)>>
    /\ wr = [pc |-> "idle", f |-> 1]
    /\ rd = [pc |-> "idle", t |-> 0, T |-> FromFrame(frames[1]), a |-> Zero,
             F |-> frames[1], b |-> Zero, overlap |-> FALSE]
    /\ nops = 0
    /\ last = Op("construct", 1, [frame |-> 1])
    /\ line = None /\ lcopy = None /\ lret = None
    /\ mesh = None

RaceNext ==
    \/ \E f \in DOMAIN frames : WriterAssign(f)
    \/ WriterRebuild
    \/ \E t \in Params("Circle") : ReaderPointAt(t)
    \/ ReaderCenter

SpecRace == RaceInit /\ [][RaceNext]_vars

\* ----------------------------------------------------------------- mesh

\* None as the face of a half-edge: a key that no face has.
NoFace == -1

\* A dict with key k set to val, and with key k deleted.
Put(d, k, val) == [x \in DOMAIN d \cup {k} |-> IF x = k THEN val ELSE d[x]]

Del(d, k) == [x \in DOMAIN d \ {k} |-> d[x]]

\* list.index(x): the first position of x; list.insert(i, x): x goes before
\* the element at position i.
Index(s, x) == CHOOSE i \in 1..Len(s) : s[i] = x /\ \A j \in 1..(i - 1) : s[j] # x

Insert(s, i, x) == SubSeq(s, 1, i - 1) \o <<x>> \o SubSeq(s, i, Len(s))

\* Whether q follows p in the cycle of the vertex list s.
Consecutive(s, p, q) == \E i \in 1..Len(s) : s[i] = p /\ s[(i % Len(s)) + 1] = q

\* Mesh.from_vertices_and_faces(points, faces): vertex keys and face keys
\* count from 0; add_face sets halfedge[u][v] to the face for every
\* consecutive pair and halfedge[v][u] to None where no face has claimed it.
FromVerticesAndFaces(points, faces) ==
    LET keys == 0..(Len(points) - 1)
        fkeys == 0..(Len(faces) - 1)
        FaceOf(u, v) == {f \in fkeys : Consecutive(faces[f + 1], u, v)}
    IN  [vertex |-> [k \in keys |-> points[k + 1]],
         halfedge |->
            [u \in keys |->
                [v \in {x \in keys : FaceOf(u, x) \cup FaceOf(x, u) # {}} |->
                    IF FaceOf(u, v) # {} THEN CHOOSE f \in FaceOf(u, v) : TRUE
                    ELSE NoFace]],
         face |-> [f \in fkeys |-> faces[f + 1]],
         max_vertex |-> Len(points) - 1]

\* The meshes the callers build: two triangles on a shared edge, and a
\* quad with a triangle on one side.  Coordinates are in eighths of a unit.
InputMeshes ==
    {FromVerticesAndFaces(<<<<0, 0, 0>>, <<8, 0, 0>>, <<8, 8, 0>>, <<0, 8, 0>>>>,
                          <<<<0, 1, 2>>, <<0, 2, 3>>>>),
     FromVerticesAndFaces(<<<<0, 0, 0>>, <<8, 0, 0>>, <<8, 8, 0>>, <<0, 8, 0>>,
                            <<16, 0, 0>>>>,
                          <<<<0, 1, 2, 3>>, <<1, 4, 2>>>>)}

\* The parameters the callers pass to mesh_split_edge, in halves:
\* -1/2, 0, 1/2, 1, 3/2.
SplitParams == {-1, 0, 1, 2, 3}

\* The parameter 1.0, in halves.
One == 2

\* Mesh.edge_point(u, v, t): a + (b - a) * t.
EdgePoint(m, u, v, t) ==
    LET ab == Sub(m.vertex[v], m.vertex[u])
    IN  Add(m.vertex[u], <<(ab[1] * t) \div One, (ab[2] * t) \div One,
                           (ab[3] * t) \div One>>)

\* Mesh.add_vertex(x=x, y=y, z=z): the next key, with an empty half-edge
\* dict.
AddVertex(m, xyz) ==
    LET key == m.max_vertex + 1
    IN  [m EXCEPT !.max_vertex = key,
                  !.vertex = Put(m.vertex, key, xyz),
                  !.halfedge = Put(m.halfedge, key, <<>>)]

\* A split of one side that puts w after v in the face.
SplitSideInsertingAfter(m, u, v, w, fkey) ==
    LET h1 == [m.halfedge EXCEPT ![u] = Put(m.halfedge[u], w, fkey)]
        h2 == [h1 EXCEPT ![w] = Put(h1[w], v, fkey)]
        h3 == [h2 EXCEPT ![u] = Del(h2[u], v)]
    IN  [m EXCEPT !.halfedge = h3,
                  !.face = IF fkey # NoFace
                           THEN [m.face EXCEPT ![fkey] =
                                    Insert(m.face[fkey],
                                           Index(m.face[fkey], v) + 1, w)]
                           ELSE m.face]

\* The statements of mesh_split_edge after the vertex w was added: the
\* half-edges of one side, then the face of that side, for both sides.
SplitSide(m, u, v, w, fkey) ==
    LET h1 == [m.halfedge EXCEPT ![u] = Put(m.halfedge[u], w, fkey)]
        h2 == [h1 EXCEPT ![w] = Put(h1[w], v, fkey)]
        h3 == [h2 EXCEPT ![u] = Del(h2[u], v)]
    IN  [m EXCEPT !.halfedge = h3,
                  !.face = IF fkey # NoFace
                           THEN [m.face EXCEPT ![fkey] =
                                    Insert(m.face[fkey], Index(m.face[fkey], v), w)]
                           ELSE m.face]

\* mesh_split_edge(mesh, u, v, t, allow_boundary): the mesh afterwards and
\* what the call returned or raised.
MeshSplitEdge(m, u, v, t, allow_boundary) ==
    IF t < 0 THEN [mesh |-> m, ret |-> Error("ValueError")]
    ELSE IF t > One THEN [mesh |-> m, ret |-> Error("ValueError")]
    ELSE IF t = 0 THEN [mesh |-> m, ret |-> [key |-> u]]
    ELSE IF t = One THEN [mesh |-> m, ret |-> [key |-> v]]
    ELSE IF v \notin DOMAIN m.halfedge[u] \/ u \notin DOMAIN m.halfedge[v]
         THEN [mesh |-> m, ret |-> Error("KeyError")]
    ELSE LET fkey_uv == m.halfedge[u][v]
             fkey_vu == m.halfedge[v][u]
         IN  IF ~allow_boundary /\ (fkey_uv = NoFace \/ fkey_vu = NoFace)
             THEN [mesh |-> m, ret |-> [none |-> TRUE]]
             ELSE LET m1 == AddVertex(m, EdgePoint(m, u, v, t))
                      w == m1.max_vertex
                      m2 == SplitSide(m1, u, v, w, fkey_uv)
                      m3 == SplitSide(m2, v, u, w, fkey_vu)
                  IN  [mesh |-> m3, ret |-> [key |-> w]]

SplitEdge(u, v, t, allow_boundary) ==
    /\ Enabled
    /\ LET r == MeshSplitEdge(mesh, u, v, t, allow_boundary)
       IN  /\ mesh' = r.mesh
           /\ last' = Returned("split_edge", 0,
                               [u |-> u, v |-> v, t |-> t,
                                allow_boundary |-> allow_boundary], r.ret)
    /\ nops' = nops + 1
    /\ UNCHANGED <<conicVars, lineVars, raceVars>>

MeshInit ==
    /\ mesh \in InputMeshes
    /\ nops = 0
    /\ last = Op("construct", 0, [none |-> TRUE])
    /\ frames = <<>> /\ conics = <<>>
    /\ line = None /\ lcopy = None /\ lret = None
    /\ wr = None /\ rd = None

MeshNext ==
    \E u \in DOMAIN mesh.vertex, v \in DOMAIN mesh.vertex :
       \E t \in SplitParams, allow_boundary \in BOOLEAN :
          SplitEdge(u, v, t, allow_boundary)

SpecMesh == MeshInit /\ [][MeshNext]_vars

\* ------------------------------------------------------ claims on conics

\* Whether conic c's cached transformation is the one its frame yields.
Coherent(c, fs) == c.transformation = FromFrame(fs[c.frame])

\* The mutations of a conic that the cache is said to survive.
PublicMutations == {"frame", "point", "transform", "radius", "major", "minor", "focal"}

\* C1: every public mutation of a conic (frame, point, transform, radius,
\* major, minor, focal) leaves its cached transformation equal to
\* Transformation.from_frame of its current frame, if it was before.
C1_PublicMutationsKeepCache ==
    [][\A c \in DOMAIN conics :
          (/\ last'.op \in PublicMutations
           /\ last'.c = c
           /\ Coherent(conics[c], frames))
          => Coherent(conics'[c], frames')]_vars

\* C2: transform(T) on any conic, Hyperbola included, maps its frame by T
\* and every point_at(t) by T.
C2_TransformMapsFrameAndPoints ==
    [][\A c \in DOMAIN conics :
          (last'.op = "transform" /\ last'.c = c)
          => /\ frames'[conics'[c].frame]
                  = FrameTransform(frames[conics[c].frame], last'.arg.T)
             /\ \A t \in Params(conics[c].kind) :
                   PointAt(conics'[c], frames', t)
                      = ApplyPoint(last'.arg.T, PointAt(conics[c], frames, t))]_vars

\* What a caller can observe of a conic: its frame, its cached
\* transformation and the values of its evaluators.
Observed(c, fs) ==
    [frame |-> fs[c.frame], transformation |-> c.transformation,
     evaluators |-> Evaluators(c, fs)]

\* C3: a conic's frame is its own: an operation on another conic
\* (transform, point, frame), or the caller's mutation of the frame object
\* it passed in, changes nothing observable of the conic.
C3_FrameOwnedExclusively ==
    [][\A b \in DOMAIN conics :
          (\/ last'.op \in {"transform", "point", "frame"} /\ last'.c # b
           \/ last'.op \in {"caller_point", "caller_transform"})
          => Observed(conics'[b], frames') = Observed(conics[b], frames)]_vars

\* transform(T) followed by transform(inverse(T)), from the current state.
RoundTrip(c, fs, T) ==
    LET r == TransformOf(c, fs, T)
    IN  TransformOf(r.conic, r.frames, Inverse(T))

\* C5: from every state, transform(T) then transform(inverse(T)) returns
\* point_at, tangent_at, normal_at and frame_at to their values.
C5_RoundTripRestoresEvaluators ==
    \A c \in DOMAIN conics, T \in InputTransformations :
        LET r == RoundTrip(conics[c], frames, T)
        IN  Evaluators(r.conic, r.frames) = Evaluators(conics[c], frames)

\* C6: frame reassignment and transform leave the shape parameters alone;
\* a shape setter leaves the frame and the cached transformation alone.
C6_ShapeAndFrameIndependent ==
    [][\A c \in DOMAIN conics :
          /\ (last'.op \in {"frame", "transform"} /\ last'.c = c)
                => Shape(conics'[c]) = Shape(conics[c])
          /\ (last'.op \in {"radius", "major", "minor", "focal"} /\ last'.c = c)
                => /\ frames' = frames
                   /\ conics'[c].frame = conics[c].frame
                   /\ conics'[c].transformation = conics[c].transformation]_vars

\* C6 witness: a circle whose frame was transformed and whose radius was
\* then reassigned to a new value.
C6_Witness ==
    /\ last.op = "radius"
    /\ nops = 2
    /\ last.c = 1
    /\ conics[1].kind = "Circle"
    /\ conics[1].radius = 1
    /\ frames[1] \notin InputFrames
    /\ Coherent(conics[1], frames)

\* C7: from_data(curve.data) has the field values of the curve.
C7_FromDataRebuildsFields ==
    last.op = "from_data"
    => LET g == conics[last.c]
           n == conics[Len(conics)]
       IN  /\ n.kind = g.kind
           /\ frames[n.frame] = frames[g.frame]
           /\ Shape(n) = Shape(g)

\* C8: transformed(T) and translated(v) return what the curve becomes under
\* transform, with the curve's shape parameters, and leave the curve alone.
C8_TransformedIsTransformOfCopy ==
    [][last'.op \in {"transformed", "translated"}
         => LET g == conics[last'.c]
                n == conics'[Len(conics')]
                T == last'.arg.T
                r == TransformOf(g, frames, T)
            IN  /\ frames'[n.frame] = r.frames[r.conic.frame]
                /\ n.transformation = r.conic.transformation
                /\ Shape(n) = Shape(g)
                /\ conics'[last'.c] = g
                /\ frames'[g.frame] = frames[g.frame]]_vars

\* --------------------------------------- claims on the frame setter race

\* The reader combined a cached transformation and a frame that do not
\* belong together.
Torn == rd.T # FromFrame(rd.F)

\* C4: a finished normal_at that combined the transformation of one frame
\* with the origin of another overlapped a frame setter; an evaluation that
\* overlaps no setter never does.
C4_TornOnlyWhenOverlapping == (rd.pc = "done" /\ Torn) => rd.overlap

\* C4 witness: the reader ran between the two statements of the setter and
\* took its point from the old map and its center from the new frame.
C4_Witness ==
    /\ rd.pc = "done"
    /\ Torn
    /\ rd.overlap
    /\ rd.b # rd.T.tr
    /\ rd.b = frames[conics[1].frame].point

\* -------------------------------------------------------- claims on Line

\* C9: point_at(t) is start at t = 0, end at t = 1, and
\* start + t * (end - start) at every t, also outside [0, 1].
C9_LinePointAt ==
    last.op = "point_at"
    => LET t == last.arg.t
       IN  /\ t = 0 => lret.value = line.start
           /\ t = 1 => lret.value = line.end
           /\ \A i \in 1 .. 3 :
                 lret.value[i] = line.start[i] + t * (line.end[i] - line.start[i])

\* C9 witness: a line of positive length evaluated beyond its end.
C9_Witness ==
    /\ last.op = "point_at"
    /\ last.arg.t = 2
    /\ line.start # line.end
    /\ lret.value \notin {line.start, line.end}

\* C10: a pure rotation keeps the length of line.transformed(R), and
\* transform applies its argument to both end points.
C10_RotationKeepsLength ==
    [][/\ (last'.op = "transformed" /\ IsRotation(last'.arg.T))
            => LineLength(lcopy') = LineLength(line)
       /\ last'.op = "transform"
            => /\ line'.start = ApplyPoint(last'.arg.T, line.start)
               /\ line'.end = ApplyPoint(last'.arg.T, line.end)]_vars

\* C10 witness: a line of positive length whose rotated copy lies elsewhere.
C10_Witness ==
    /\ last.op = "transformed"
    /\ IsRotation(last.arg.T)
    /\ line.start # line.end
    /\ lcopy # line
    /\ LineLength(lcopy) = LineLength(line)

\* ----------------------------------- claims on shape parameters and reads

\* Whether the shape parameters a conic stores are the valid ones: positive
\* radius, major and minor, nonzero focal.
ValidShape(c) ==
    CASE c.kind = "Circle"    -> c.radius > 0
      [] c.kind = "Ellipse"   -> c.major > 0 /\ c.minor > 0
      [] c.kind = "Hyperbola" -> c.major > 0 /\ c.minor > 0
      [] c.kind = "Parabola"  -> c.focal # 0

\* C11: constructors and shape setters reject a non-positive radius, major
\* or minor and a zero focal, so that no conic ever stores one.
C11_NoInvalidShapeStored == \A c \in DOMAIN conics : ValidShape(conics[c])

\* ------------------------------------------ claims on the Line evaluators

\* A line on which world z cross the line vector vanishes: of zero length,
\* or parallel to the world z axis.
NoNormal(l) == Cross(WorldZ, LineVector(l)) = Zero

\* C12: direction and tangent_at of a line whose start equals its end raise
\* a division by zero, and normal_at of such a line or of a line parallel
\* to world z raises; no vector is returned.
C12_DegenerateLineRaises ==
    /\ (last.op \in {"direction", "tangent_at"} /\ line.start = line.end)
          => lret.value = Error("ZeroDivisionError")
    /\ (last.op = "normal_at" /\ NoNormal(line))
          => IsError(lret.value)

\* C12 witness: normal_at raised on a line of positive length that points
\* along world z.
C12_Witness ==
    /\ last.op = "normal_at"
    /\ line.start # line.end
    /\ NoNormal(line)
    /\ lret.value = Error("ZeroDivisionError")

\* ----------------------------------------- claims on the conic evaluators

\* C13: Hyperbola.tangent_at, normal_at and frame_at raise
\* NotImplementedError at every parameter, normalized or not, and so do
\* Ellipse.area and Ellipse.circumference; the conic is left as it was.
C13_NotImplementedRaises ==
    [][(\/ /\ last'.op \in {"tangent_at", "normal_at", "frame_at"}
           /\ conics[last'.c].kind = "Hyperbola"
        \/ last'.op \in {"area", "circumference"})
       => /\ last'.ret = Error("NotImplementedError")
          /\ UNCHANGED <<frames, conics>>]_vars

\* C13 witness: frame_at of a hyperbola raised at the normalized parameter
\* 1/4, where the secant has its pole.
C13_Witness ==
    /\ last.op = "frame_at"
    /\ conics[last.c].kind = "Hyperbola"
    /\ last.arg.normalized
    /\ last.arg.t = 2
    /\ last.ret = Error("NotImplementedError")

\* C14: reading asymptote1 or asymptote2 of a hyperbola raises
\* NotImplementedError; it does not return without a line.
C14_AsymptotesRaise ==
    last.op \in {"asymptote1", "asymptote2"}
    => last.ret = Error("NotImplementedError")

\* The angle a call evaluates the curve at.
AngleOf(arg) == Rescaled(arg.t, arg.normalized)

\* C15: Hyperbola.point_at raises a division by zero at the angles pi/2 and
\* 3 pi/2 (normalized 1/4 and 3/4), and elsewhere returns the image under
\* the frame's transformation of (a / cos t, b sin t / cos t, 0).
C15_HyperbolaPointAtPoles ==
    (last.op = "point_at" /\ conics[last.c].kind = "Hyperbola")
    => LET c == conics[last.c]
           t == AngleOf(last.arg)
       IN  IF Cos(t) = 0 THEN last.ret = Error("ZeroDivisionError")
           ELSE last.ret =
                  [point |-> ApplyPoint(FromFrame(frames[c.frame]),
                                        <<c.major * Cos(t),
                                          c.minor * Sin(t) * Cos(t), 0>>)]

\* C16: frame_at of a circle, an ellipse or a parabola does not raise; the
\* frame it returns has point_at(t) as origin, and as axes, for a circle,
\* y = normal_at(t) and x = y cross the frame normal, for an ellipse and a
\* parabola, x = tangent_at(t) and y = the frame normal cross x.
C16_FrameAtReturnsFrame ==
    (/\ last.op = "frame_at"
     /\ conics[last.c].kind \in {"Circle", "Ellipse", "Parabola"}
     /\ conics[last.c].kind = "Parabola" => ~last.arg.normalized)
    => LET c == conics[last.c]
           t == AngleOf(last.arg)
           normal == Zaxis(frames[c.frame])
       IN  /\ ~IsError(last.ret)
           /\ last.ret.point = PointAt(c, frames, t)
           /\ IF c.kind = "Circle"
              THEN /\ last.ret.yaxis = NormalAt(c, frames, t)
                   /\ last.ret.xaxis.v = Cross(last.ret.yaxis.v, normal)
              ELSE /\ last.ret.xaxis = TangentAt(c, frames, t)
                   /\ last.ret.yaxis.v = Cross(normal, last.ret.xaxis.v)

\* What a circle's evaluators satisfy at the angle t: the point lies at the
\* radius from the center, the normal is the unit vector from the point to
\* the center, the tangent is a unit vector perpendicular to it, and the
\* frame has the tangent and the normal as axes.
CircleGeometry(c, fs, t) ==
    LET point == CirclePointAt(c, fs, t, FALSE)
        center == fs[c.frame].point
        normal == CircleNormalAt(c, fs, t, FALSE)
        tangent == CircleTangentAt(c, fs, t, FALSE)
        frame == CircleFrameAt(c, fs, t, FALSE)
    IN  /\ Dot(Sub(point, center), Sub(point, center)) = c.radius * c.radius
        /\ ~IsError(normal)
        /\ normal = Unitize(Sub(center, point))
        /\ ~IsError(tangent)
        /\ Dot(tangent.v, normal.v) = 0
        /\ ~IsError(frame)
        /\ frame.xaxis = tangent
        /\ frame.yaxis = normal

\* C17: after construction and any frame, point, radius reassignments and
\* transforms, a circle's evaluators agree with its center and radius at
\* every angle.
C17_CircleGeometry ==
    \A c \in DOMAIN conics :
        conics[c].kind = "Circle"
        => \A t \in Params("Circle") : CircleGeometry(conics[c], frames, t)

\* The square of the distance from point p to the line l.
SquaredDistanceToLine(p, l) ==
    LET d == Sub(l.end, l.start)
        m == Cross(Sub(p, l.start), d)
    IN  [num |-> Dot(m, m), den |-> Dot(d, d)]

\* What a parabola's point_at, vertex, focus and directix satisfy at t.
ParabolaGeometry(c, fs, t) ==
    LET F == fs[c.frame]
        point == ParabolaPointAt(c, fs, t)
        focus == ParabolaFocus(c, fs)
        directix == ParabolaDirectix(c, fs)
        toFocus == Sub(point, focus)
    IN  /\ point = ApplyPoint(FromFrame(F), <<t, (t * t) \div (4 * c.focal), 0>>)
        /\ ParabolaPointAt(c, fs, 0) = ParabolaVertex(c, fs)
        /\ ParabolaVertex(c, fs) = F.point
        /\ focus = Add(F.point, Scale(F.yaxis, c.focal))
        /\ directix.start = Sub(F.point, Scale(F.yaxis, c.focal))
        /\ Cross(Sub(directix.end, directix.start), F.xaxis) = Zero
        /\ directix.end # directix.start
        /\ SquaredDistanceToLine(point, directix) = [num |-> Dot(toFocus, toFocus), den |-> 1]

\* C18: for every parabola with positive focal and every t, point_at(t) is
\* the frame's image of (t, t^2 / (4 f), 0), point_at(0) is the vertex and
\* the frame origin, focus and directix lie at the focal distance on either
\* side along the y axis, and point_at(t) is as far from the focus as from
\* the directix.
C18_ParabolaGeometry ==
    \A c \in DOMAIN conics :
        (conics[c].kind = "Parabola" /\ conics[c].focal > 0)
        => \A t \in Params("Parabola") : ParabolaGeometry(conics[c], frames, t)

\* The evaluator named op, called with the flag given.
Call(op, c, fs, t, normalized) ==
    CASE op = "point_at"   -> PointAtCall(c, fs, t, normalized)
      [] op = "tangent_at" -> TangentAtCall(c, fs, t, normalized)
      [] op = "normal_at"  -> NormalAtCall(c, fs, t, normalized)
      [] op = "frame_at"   -> FrameAtCall(c, fs, t, normalized)

\* C19: every evaluator of a circle or an ellipse, and point_at of a
\* hyperbola, called at t with normalized=True returns what it returns at
\* 2 pi t with normalized=False: the parameter is rescaled once.
C19_NormalizedRescalesOnce ==
    (/\ last.op \in {"point_at", "tangent_at", "normal_at", "frame_at"}
     /\ last.arg.normalized
     /\ \/ conics[last.c].kind \in {"Circle", "Ellipse"}
        \/ conics[last.c].kind = "Hyperbola" /\ last.op = "point_at")
    => last.ret = Call(last.op, conics[last.c], frames, TwoPiTimes(last.arg.t), FALSE)

\* C19 witness: tangent_at of a circle at the normalized parameter 1/4
\* returned the tangent at the angle pi/2, which is not the one at 0.
C19_Witness ==
    /\ last.op = "tangent_at"
    /\ conics[last.c].kind = "Circle"
    /\ last.arg.normalized
    /\ last.arg.t = 2
    /\ ~IsError(last.ret)
    /\ last.ret = CircleTangentAt(conics[last.c], frames, 1, FALSE)
    /\ last.ret # CircleTangentAt(conics[last.c], frames, 0, FALSE)

\* C20: eccentricity never raises; it is 0 for a circle, 1 for a parabola,
\* in [0, 1) for an ellipse and above 1 for a hyperbola, where it is
\* sqrt(major^2 + minor^2) / major.
C20_EccentricityRange ==
    last.op = "eccentricity"
    => LET c == conics[last.c]
           e == last.ret
       IN  /\ ~IsError(e)
           /\ CASE c.kind = "Circle"    -> e.num = 0
                [] c.kind = "Parabola"  -> e.num = e.den
                [] c.kind = "Ellipse"   -> 0 <= e.num /\ e.num < e.den
                [] c.kind = "Hyperbola" ->
                      /\ e.num > e.den
                      /\ e = Root(c.major * c.major + c.minor * c.minor,
                                  c.major * c.major)

\* --------------------------------------------- claims on curve properties

\* What a read of a property of curve c returned: a line (c = 0) keeps it
\* in lret, a conic in last.
PropertyRead == IF last.c = 0 THEN lret.value ELSE last.ret

KindRead == IF last.c = 0 THEN "Line" ELSE conics[last.c].kind

\* C21: domain returns a pair (t_min, t_max) with t_min < t_max, which is
\* (0, 2 * pi) for Circle, Ellipse and Hyperbola and (-inf, +inf) for Line
\* and Parabola; is_periodic and is_closed are both true for Circle and
\* Ellipse and both false for Line, Hyperbola and Parabola.
C21_DomainAndFlags ==
    /\ last.op = "domain" =>
          /\ Less(PropertyRead.tmin, PropertyRead.tmax)
          /\ PropertyRead =
                IF KindRead \in {"Line", "Parabola"}
                THEN [tmin |-> MinusInf, tmax |-> PlusInf]
                ELSE [tmin |-> Finite(0), tmax |-> Finite(TwoPi)]
    /\ last.op \in {"is_periodic", "is_closed"} =>
          PropertyRead.bool = (KindRead \in {"Circle", "Ellipse"})

\* C22: for every curve whose is_closed is true (Circle, Ellipse), start and
\* end are both defined and are the same point, the point at the domain
\* minimum; for the periodic curves the points at the domain minimum and at
\* the domain minimum plus 2 * pi coincide.
C22_ClosedCurveStartIsEnd ==
    /\ (last.op \in {"start", "end"} /\ IsClosed(conics[last.c])) =>
          /\ ~IsError(last.ret)
          /\ Start(conics[last.c], frames) = End(conics[last.c], frames)
          /\ last.ret = PointAtCall(conics[last.c], frames,
                                    Domain(conics[last.c]).tmin.at, FALSE)
    /\ \A c \in DOMAIN conics :
          IsPeriodic(conics[c]) =>
             PointAtCall(conics[c], frames, Domain(conics[c]).tmin.at, FALSE)
             = PointAtCall(conics[c], frames,
                           Domain(conics[c]).tmin.at + TwoPi, FALSE)

\* The ellipse built on the frame of circle c with both radii equal to the
\* circle's radius.
EllipseTwin(c, fs) == EllipseInit(c.frame, fs, c.radius, c.radius)

\* The point p in the coordinates of conic c's cached map.
LocalPoint(c, p) == ApplyPoint(Inverse(c.transformation), p)

\* C23: Ellipse(F, r, r) and Circle(F, r) return the same point_at,
\* tangent_at and normal_at at every t, and that ellipse's eccentricity is
\* 0; the local point of every ellipse satisfies
\* (x / major)^2 + (y / minor)^2 = 1.
C23_EllipseGeneralizesCircle ==
    /\ (/\ last.op \in {"point_at", "tangent_at", "normal_at"}
        /\ conics[last.c].kind = "Circle"
        /\ Coherent(conics[last.c], frames))
       => LET twin == EllipseTwin(conics[last.c], frames)
          IN  /\ last.ret = Call(last.op, twin, frames, last.arg.t,
                                 last.arg.normalized)
              /\ ~IsError(EllipseEccentricity(twin))
              /\ EllipseEccentricity(twin).num = 0
    /\ (/\ last.op = "point_at"
        /\ conics[last.c].kind = "Ellipse")
       => LET c == conics[last.c]
              p == LocalPoint(c, last.ret.point)
          IN  /\ p[3] = 0
              /\ c.minor * c.minor * p[1] * p[1]
                 + c.major * c.major * p[2] * p[2]
                 = c.major * c.major * c.minor * c.minor

\* C23 witness: normal_at of a circle of radius 2 on a frame that is not the
\* world frame returned, at pi/2, what the twin ellipse returns.
C23_Witness ==
       /\ last.op = "normal_at"
       /\ conics[last.c].kind = "Circle"
       /\ conics[last.c].radius = 2
       /\ Coherent(conics[last.c], frames)
       /\ frames[conics[last.c].frame] # WorldXY
       /\ last.arg.t = 1
       /\ ~IsError(last.ret)
       /\ last.ret = EllipseNormalAt(EllipseTwin(conics[last.c], frames),
                                     frames, 1, FALSE)

\* Whether the line through p.start and p.end is perpendicular to the x
\* axis of conic c at the squared distance num / den from its centre, on
\* the side given by sign.
DirectrixAt(l, c, fs, sign, num, den) ==
    /\ l.start.point = fs[c.frame].point
    /\ l.start.along = fs[c.frame].xaxis
    /\ l.start.plus = Zero
    /\ l.start.sign = sign
    /\ l.start.by.num * den = num * l.start.by.den
    /\ l.end.point = l.start.point /\ l.end.along = l.start.along
    /\ l.end.sign = l.start.sign /\ l.end.by = l.start.by
    /\ l.end.plus # Zero
    /\ Dot(l.end.plus, fs[c.frame].xaxis) = 0

\* C24: for every ellipse with major > minor > 0, directix1 is the line
\* perpendicular to the x axis at distance major / eccentricity from the
\* centre on the positive side and directix2 the one on the negative side
\* (squared distance major^4 / (major^2 - minor^2)), and focus1 / focus2 are
\* the centre plus / minus sqrt(major^2 - minor^2) along the x axis.
C24_EllipseFociAndDirectrices ==
    (/\ last.op \in {"focus1", "focus2", "directix1", "directix2"}
     /\ conics[last.c].major > conics[last.c].minor
     /\ conics[last.c].minor > 0)
    => LET c == conics[last.c]
           a2 == c.major * c.major
           c2 == c.major * c.major - c.minor * c.minor
       IN  /\ ~IsError(last.ret)
           /\ last.op = "focus1" =>
                 last.ret = Offset(frames[c.frame].point, frames[c.frame].xaxis,
                                   1, Root(c2, 1), Zero)
           /\ last.op = "focus2" =>
                 last.ret = Offset(frames[c.frame].point, frames[c.frame].xaxis,
                                   -1, Root(c2, 1), Zero)
           /\ last.op = "directix1" =>
                 DirectrixAt(last.ret, c, frames, 1, a2 * a2, c2)
           /\ last.op = "directix2" =>
                 DirectrixAt(last.ret, c, frames, -1, a2 * a2, c2)

\* ------------------------------------------------------- claims on mesh

\* Whether u and v are neighbours in mesh m: a half-edge joins them.
Neighbours(m, u, v) == v \in DOMAIN m.halfedge[u] \/ u \in DOMAIN m.halfedge[v]

\* C25: mesh_split_edge(mesh, u, v, t) with 0 < t < 1 raises ValueError when
\* u and v are not neighbours in the mesh, and leaves the mesh unchanged.
C25_NonNeighboursRaiseValueError ==
    [][(/\ last'.op = "split_edge"
        /\ 0 < last'.arg.t /\ last'.arg.t < One
        /\ ~Neighbours(mesh, last'.arg.u, last'.arg.v))
       => (last'.ret = Error("ValueError") /\ mesh' = mesh)]_vars

\* Whether the edge (u, v) of mesh m is on the boundary: one of its
\* half-edges has no face.
OnBoundary(m, u, v) == m.halfedge[u][v] = NoFace \/ m.halfedge[v][u] = NoFace

\* Whether ret is the key of the one vertex that m2 has and m has not.
OneNewVertex(m, m2, ret) ==
    /\ "key" \in DOMAIN ret
    /\ ret.key \notin DOMAIN m.vertex
    /\ DOMAIN m2.vertex = DOMAIN m.vertex \cup {ret.key}

\* C26: mesh_split_edge raises ValueError and leaves the mesh unchanged when
\* t < 0 or t > 1; returns u at t = 0 and v at t = 1 without changing the
\* mesh; adds no vertex and leaves the mesh unchanged when allow_boundary is
\* false and the edge is on the boundary; in every other case (of an edge of
\* the mesh) returns the key of exactly one new vertex; so whatever it
\* returns is a vertex key of the mesh.
C26_SplitEdgeCases ==
    [][last'.op = "split_edge" =>
         LET u == last'.arg.u
             v == last'.arg.v
             t == last'.arg.t
             ret == last'.ret
         IN  /\ (t < 0 \/ t > One) => (ret = Error("ValueError") /\ mesh' = mesh)
             /\ t = 0 => (ret = [key |-> u] /\ mesh' = mesh)
             /\ t = One => (ret = [key |-> v] /\ mesh' = mesh)
             /\ (0 < t /\ t < One /\ Neighbours(mesh, u, v)) =>
                   IF ~last'.arg.allow_boundary /\ OnBoundary(mesh, u, v)
                   THEN mesh' = mesh
                   ELSE OneNewVertex(mesh, mesh', ret)
             /\ ~IsError(ret) =>
                   ("key" \in DOMAIN ret /\ ret.key \in DOMAIN mesh'.vertex)]_vars

\* The half-edge table of mesh m agrees with its faces: each cyclically
\* consecutive pair (p, q) of face f has halfedge[p][q] = f, and a half-edge
\* exists exactly when its opposite exists.
Agrees(m) ==
    /\ \A f \in DOMAIN m.face :
          \A p \in DOMAIN m.vertex, q \in DOMAIN m.vertex :
             Consecutive(m.face[f], p, q) =>
                (q \in DOMAIN m.halfedge[p] /\ m.halfedge[p][q] = f)
    /\ \A p \in DOMAIN m.halfedge, q \in DOMAIN m.halfedge :
          q \in DOMAIN m.halfedge[p] <=> p \in DOMAIN m.halfedge[q]

\* The list s without the vertex w.
Without(s, w) == LET Keep(x) == x # w IN SelectSeq(s, Keep)

\* Face f of m2 is face f of m with w put between p and q.
InsertedBetween(m, m2, f, p, q, w) ==
    /\ Without(m2.face[f], w) = m.face[f]
    /\ Len(m2.face[f]) = Len(m.face[f]) + 1
    /\ Consecutive(m2.face[f], p, w)
    /\ Consecutive(m2.face[f], w, q)

\* m2 is m with the edge (u, v) split at the new vertex w, and nothing else
\* changed.
SplitAt(m, m2, u, v, w) ==
    LET fuv == m.halfedge[u][v]
        fvu == m.halfedge[v][u]
    IN  /\ v \notin DOMAIN m2.halfedge[u] /\ u \notin DOMAIN m2.halfedge[v]
        /\ DOMAIN m2.halfedge[w] = {u, v}
        /\ m2.halfedge[u][w] = fuv /\ m2.halfedge[w][v] = fuv
        /\ m2.halfedge[v][w] = fvu /\ m2.halfedge[w][u] = fvu
        /\ fuv # NoFace => InsertedBetween(m, m2, fuv, u, v, w)
        /\ fvu # NoFace => InsertedBetween(m, m2, fvu, v, u, w)
        /\ DOMAIN m2.face = DOMAIN m.face
        /\ \A f \in DOMAIN m.face : f \notin {fuv, fvu} => m2.face[f] = m.face[f]
        /\ \A k \in DOMAIN m.vertex : m2.vertex[k] = m.vertex[k]
        /\ \A p \in DOMAIN m.halfedge :
              /\ DOMAIN m2.halfedge[p] \subseteq DOMAIN m.halfedge[p] \cup {w}
              /\ \A q \in DOMAIN m.halfedge[p] :
                    {p, q} # {u, v} =>
                       (q \in DOMAIN m2.halfedge[p]
                        /\ m2.halfedge[p][q] = m.halfedge[p][q])

\* C29: from a mesh whose half-edge table agrees with its faces, every
\* successful mesh_split_edge with 0 < t < 1 that inserts a vertex w removes
\* u->v and v->u, gives u->w and w->v the face of u->v and v->w and w->u the
\* face of v->u, puts w between u and v in each adjacent face (also across
\* the end of the list) and changes nothing else; the agreement holds after
\* any sequence of splits.
C29_SplitKeepsAgreement ==
    /\ []Agrees(mesh)
    /\ [][(/\ last'.op = "split_edge"
           /\ "key" \in DOMAIN last'.ret
           /\ 0 < last'.arg.t /\ last'.arg.t < One)
          => SplitAt(mesh, mesh', last'.arg.u, last'.arg.v, last'.ret.key)]_vars

\* C29 witness: the edge from the last vertex of a face to its first was
\* split after another split; w went to the front of that list and between
\* the two vertices in the face on the other side.
C29_Witness ==
    /\ last.op = "split_edge"
    /\ nops = 2
    /\ last.arg.u = 2 /\ last.arg.v = 0 /\ last.arg.t = 1
    /\ last.ret = [key |-> 5]
    /\ mesh.face[0][1] = 5
    /\ mesh.face[0][Len(mesh.face[0])] = 2
    /\ Consecutive(mesh.face[1], 0, 5) /\ Consecutive(mesh.face[1], 5, 2)
    /\ Agrees(mesh)

\* ---------------------------------- claims on the parabola's tangent

\* The exact derivative (1, 2 a t) of the local parabola at t, unitized and
\* mapped as the evaluators map their result.
Derivative(c, t) ==
    ApplyUnit(c.transformation, Unitize(<<1, TimesA(c, 2 * t), 0>>))

\* The derivative turned a quarter turn to the left: (-2 a t, 1).
DerivativeNormal(c, t) ==
    ApplyUnit(c.transformation, Unitize(<<-TimesA(c, 2 * t), 1, 0>>))

\* The unit vector u reversed.
Opposite(u) == [u EXCEPT !.v = Scale(u.v, -1)]

\* C27 as stated: the tangent of a parabola, built from (t, a t^2) and
\* (2t, 2 a t (2t) - a t^2), does not have the direction of the exact
\* derivative (1, 2 a t).
C27_TangentIsNotDerivative ==
    (/\ last.op = "tangent_at"
     /\ conics[last.c].kind = "Parabola"
     /\ ~last.arg.normalized)
    => last.ret # Derivative(conics[last.c], last.arg.t)

\* C27: the second point (2t, 2 a t (2t) - a t^2) lies on the tangent line
\* at t, so the vector tangent_at unitizes is t * (1, 2 a t) and the one
\* normal_at unitizes is t * (-2 a t, 1): for t > 0 they are the unit
\* derivative and its left normal, for t < 0 their opposites, and at t = 0
\* the vector is zero and unitize raises ZeroDivisionError.
C27_TangentIsDerivativeTimesT ==
    (/\ last.op \in {"tangent_at", "normal_at"}
     /\ conics[last.c].kind = "Parabola"
     /\ ~last.arg.normalized)
    => LET c == conics[last.c]
           t == last.arg.t
           exact == IF last.op = "tangent_at" THEN Derivative(c, t)
                    ELSE DerivativeNormal(c, t)
       IN  /\ t > 0 => last.ret = exact
           /\ t < 0 => last.ret = Opposite(exact)
           /\ t = 0 => last.ret = Error("ZeroDivisionError")

\* C27 witness: tangent_at at a positive t returned the unit derivative, a
\* vector along neither axis of the parabola's frame.
C27_Witness ==
    /\ last.op = "tangent_at"
    /\ conics[last.c].kind = "Parabola"
    /\ ~last.arg.normalized
    /\ last.arg.t > 0
    /\ ~IsError(last.ret)
    /\ last.ret = Derivative(conics[last.c], last.arg.t)
    /\ last.ret.n = 2

\* C28: for every parabola with focal > 0 and every finite t, also t = 0
\* and t < 0, tangent_at and normal_at return unit vectors perpendicular to
\* each other, and the tangent has a strictly positive component along the
\* parabola's x axis.
C28_TangentFrameEverywhere ==
    (/\ last.op \in {"tangent_at", "normal_at"}
     /\ conics[last.c].kind = "Parabola"
     /\ ~last.arg.normalized
     /\ conics[last.c].focal > 0)
    => LET c == conics[last.c]
           tangent == ParabolaTangentAt(c, frames, last.arg.t)
           normal == ParabolaNormalAt(c, frames, last.arg.t)
       IN  /\ ~IsError(last.ret)
           /\ last.ret.n = Dot(last.ret.v, last.ret.v)
           /\ Dot(tangent.v, normal.v) = 0
           /\ Dot(tangent.v, ApplyVector(c.transformation, <<1, 0, 0>>)) > 0

\* ----------------------------------------- claims on the line's points

\* The operations through which a line's start and end may change.
LineMutations == {"start", "end", "point", "transform"}

\* C30: a line's start and end change only through its setters and
\* transform; mutating or transforming a point returned by point_at(t), for
\* any t including 0 and 1, does not change the line's start or end.
C30_ReturnedPointsAreDetached ==
    [][last'.op \notin LineMutations => line' = line]_vars

====
